---------------------------- MODULE Spec2Model ----------------------------
(***************************************************************************)
(* A model of wave-mc-jars-api: the semantic version comparator, the Java  *)
(* requirement resolver, the providers' build operations, the in-process   *)
(* cache, and the cache-backed service with its HTTP handlers.             *)
(*                                                                         *)
(* Strings the code parses are sequences of one-character strings, so that *)
(* splitting, prefix tests and number parsing are computed, not assumed.   *)
(***************************************************************************)
EXTENDS Integers, Sequences, FiniteSets, TLC

VARIABLES
    cmpA, cmpB, cmpC, cmpRes,     \* comparator: three inputs and the results
    javaFile,                     \* java: the rule file on disk
    configOnce, config, configErr,\* java: the package's load-once state
    javaLast,                     \* java: the last GetRequirement call and its result
    fList, fOptA, fOptB, fRes,    \* filtering: a version list, two options, the results
    cacheData,                    \* cache: MemoryCache.data, key -> cacheEntry
    now,                          \* cache: the wall clock read by time.Now()
    cGet,                         \* cache: each goroutine's position inside MemoryCache.Get
    cFresh,                       \* cache: per key, no operation has touched it since its last Set
    cLast,                        \* cache: the last completed cache operation and its result
    upstream,                     \* providers: what the upstream APIs answer for one version
    pLast,                        \* providers: the last provider call and its result
    svUp,                         \* service: what the upstream version listings answer
    svCache,                      \* service: the cache behind JarsService, key -> stored JSON
    svLast,                       \* service: the last request and its response
    lvUp,                         \* listings: per listed version, what its builds request answers
    lvLast,                       \* listings: the last GetVersions call and its result
    fanIn,                        \* fan-out: the call's inputs (what upstream holds)
    fanCancelled,                 \* fan-out: the caller's context is cancelled
    fanTask,                      \* fan-out: each enrichment goroutine's position
    fanChan,                      \* fan-out: the results channel
    fanMain,                      \* fan-out: the calling goroutine, its slice and result
    manManifest, manCacheTime,    \* vanilla: VanillaProvider.manifest and .cacheTime
    manNow,                       \* vanilla: the wall clock
    manUp,                        \* vanilla: the generation of the manifest Mojang serves
    manProc                       \* vanilla: each request's position in fetchManifest

cmpVars == <<cmpA, cmpB, cmpC, cmpRes>>

javaVars == <<javaFile, configOnce, config, configErr, javaLast>>

filterVars == <<fList, fOptA, fOptB, fRes>>

cacheVars == <<cacheData, now, cGet, cFresh, cLast>>

provVars == <<upstream, pLast>>

svcVars == <<svUp, svCache, svLast>>

listVars == <<lvUp, lvLast>>

fanVars == <<fanIn, fanCancelled, fanTask, fanChan, fanMain>>

manVars == <<manManifest, manCacheTime, manNow, manUp, manProc>>

vars == <<cmpVars, javaVars, filterVars, cacheVars, provVars, svcVars, listVars, fanVars, manVars>>

\* the variables each specification leaves alone
notCmp    == <<javaVars, filterVars, cacheVars, provVars, svcVars, listVars, fanVars, manVars>>
notJava   == <<cmpVars, filterVars, cacheVars, provVars, svcVars, listVars, fanVars, manVars>>
notFilter == <<cmpVars, javaVars, cacheVars, provVars, svcVars, listVars, fanVars, manVars>>
notCache  == <<cmpVars, javaVars, filterVars, provVars, svcVars, listVars, fanVars, manVars>>
notProv   == <<cmpVars, javaVars, filterVars, cacheVars, svcVars, listVars, fanVars, manVars>>
notSvc    == <<cmpVars, javaVars, filterVars, cacheVars, listVars, fanVars, manVars>>
notList   == <<cmpVars, javaVars, filterVars, cacheVars, provVars, svcVars, fanVars, manVars>>
notFan    == <<cmpVars, javaVars, filterVars, cacheVars, provVars, svcVars, listVars, manVars>>
notMan    == <<cmpVars, javaVars, filterVars, cacheVars, provVars, svcVars, listVars, fanVars>>

CategoryVanilla    == "vanilla"
CategoryPaper      == "paper"
CategoryPurpur     == "purpur"
CategoryVelocity   == "velocity"
CategoryBungeeCord == "bungeecord"

\* a JavaConfig with no rules: what config points at before a successful load
ZeroConfig == [Servers |-> <<>>, Proxies |-> <<>>, Default |-> 0]

\* The values a component's variables keep in a specification that does not run it.
CmpIdle ==
    /\ cmpA = <<>> /\ cmpB = <<>> /\ cmpC = <<>>
    /\ cmpRes = [done |-> FALSE, ab |-> 0, ba |-> 0, bc |-> 0, cb |-> 0, ac |-> 0, ca |-> 0]

JavaIdle ==
    /\ javaFile = [kind |-> "missing", cfg |-> ZeroConfig]
    /\ configOnce = FALSE
    /\ config = ZeroConfig
    /\ configErr = FALSE
    /\ javaLast = [done |-> FALSE, version |-> <<>>, category |-> CategoryPaper, result |-> 0]

\* VersionFilterOptions with every filter off; a nil pointer is the empty sequence
NoFilter ==
    [Type |-> <<>>, StableOnly |-> FALSE, Java |-> <<>>, After |-> <<>>, Before |-> <<>>,
     MinYear |-> <<>>, MaxYear |-> <<>>]

FilterIdle ==
    /\ fList = <<>>
    /\ fOptA = NoFilter
    /\ fOptB = NoFilter
    /\ fRes = [done |-> FALSE, ab |-> <<>>, ba |-> <<>>, both |-> <<>>,
               query |-> <<>>, search |-> <<>>]

\* the goroutines that call the cache
CacheProcs == {1, 2}

KeyVersions == "versions:paper"
KeyBuilds   == "builds:paper:1.21"
CacheKeys   == {KeyVersions, KeyBuilds}

\* no value: what dest holds when Get returns an error
NoValue == [kind |-> "none", items |-> <<>>]

\* the zero cacheEntry, with the flag of the map lookup
NoEntry == [present |-> FALSE, data |-> <<>>, expiresAt |-> 0, orig |-> NoValue]

GetIdle == [pc |-> "idle", key |-> KeyVersions, entry |-> NoEntry, immediate |-> FALSE]

NoOp ==
    [op |-> "none", key |-> KeyVersions, hit |-> FALSE, value |-> NoValue, orig |-> NoValue,
     immediate |-> FALSE, found |-> FALSE, late |-> FALSE]

CacheIdle ==
    /\ cacheData = [k \in CacheKeys |-> NoEntry]
    /\ now = 0
    /\ cGet = [g \in CacheProcs |-> GetIdle]
    /\ cFresh = [k \in CacheKeys |-> FALSE]
    /\ cLast = NoOp

\* the zero models.Build
ZeroBuild ==
    [Number |-> 0, Version |-> <<>>, Channel |-> "", Stable |-> FALSE, CreatedAt |-> 0,
     Downloads |-> <<>>, Changes |-> <<>>, Java |-> 0]

NoCall ==
    [op |-> "none", provider |-> CategoryPaper, arg |-> 0, err |-> FALSE, builds |-> <<>>,
     build |-> ZeroBuild, url |-> "", msg |-> ""]

ProvIdle ==
    /\ upstream = [listOK |-> FALSE, builds |-> <<>>]
    /\ pLast = NoCall

\* no request served yet
NoRequest ==
    [endpoint |-> "none", category |-> "", requested |-> <<>>, resolved |-> <<>>,
     build |-> <<>>, resolveErr |-> FALSE, status |-> 0, body |-> <<>>, failed |-> {},
     opts |-> NoFilter, query |-> <<>>, hit |-> FALSE]

SvcIdle ==
    /\ svUp = [fail |-> {}, newer |-> "fail"]
    /\ svCache = <<>>
    /\ svLast = NoRequest

\* no listing made yet
NoListing == [done |-> FALSE, provider |-> "", versions |-> <<>>, premerge |-> <<>>]

ListIdle ==
    /\ lvUp = <<>>
    /\ lvLast = NoListing

\* no fan-out under way
FanIdle ==
    /\ fanIn = [job |-> "none", items |-> <<>>, ups |-> <<>>]
    /\ fanCancelled = FALSE
    /\ fanTask = <<>>
    /\ fanChan = <<>>
    /\ fanMain = [pc |-> "idle", i |-> 0, got |-> 0, slots |-> <<>>, ret |-> <<>>,
                  arrived |-> <<>>]

ManIdle ==
    /\ manManifest = 0
    /\ manCacheTime = 0
    /\ manNow = 0
    /\ manUp = 0
    /\ manProc = <<>>

-----------------------------------------------------------------------------
(* Strings *)

DigitChars == <<"0", "1", "2", "3", "4", "5", "6", "7", "8", "9">>

UpperChars == <<"A", "B", "C", "D", "E", "F", "G", "H", "I", "J", "K", "L", "M",
                "N", "O", "P", "Q", "R", "S", "T", "U", "V", "W", "X", "Y", "Z">>

LowerChars == <<"a", "b", "c", "d", "e", "f", "g", "h", "i", "j", "k", "l", "m",
                "n", "o", "p", "q", "r", "s", "t", "u", "v", "w", "x", "y", "z">>

IsDigit(c) == \E i \in 1..Len(DigitChars) : DigitChars[i] = c

DigitVal(c) == (CHOOSE i \in 1..Len(DigitChars) : DigitChars[i] = c) - 1

IsLowerLetter(c) == \E i \in 1..Len(LowerChars) : LowerChars[i] = c

ToLowerChar(c) ==
    IF \E i \in 1..Len(UpperChars) : UpperChars[i] = c
    THEN LowerChars[CHOOSE i \in 1..Len(UpperChars) : UpperChars[i] = c]
    ELSE c

\* strings.ToLower
ToLower(s) == [i \in 1..Len(s) |-> ToLowerChar(s[i])]

\* strings.HasPrefix
HasPrefix(s, p) == Len(s) >= Len(p) /\ SubSeq(s, 1, Len(p)) = p

\* strings.Contains
Contains(s, p) == \E i \in 1..(Len(s) - Len(p) + 1) : SubSeq(s, i, i + Len(p) - 1) = p

\* the value of Op at v, with v worked out once
Bind(v, Op(_)) == CHOOSE y \in {Op(x) : x \in {v}} : TRUE

\* strings.TrimPrefix
TrimPrefix(s, p) == IF HasPrefix(s, p) THEN SubSeq(s, Len(p) + 1, Len(s)) ELSE s

\* The index of the first occurrence of character c in s, 0 when there is none.
IndexOf(s, c) ==
    IF \E i \in 1..Len(s) : s[i] = c
    THEN CHOOSE i \in 1..Len(s) : s[i] = c /\ \A j \in 1..(i - 1) : s[j] # c
    ELSE 0

RECURSIVE Split(_, _)
\* strings.Split on a one-character separator
Split(s, c) ==
    LET i == IndexOf(s, c)
    IN  IF i = 0 THEN <<s>>
        ELSE <<SubSeq(s, 1, i - 1)>> \o Split(SubSeq(s, i + 1, Len(s)), c)

\* strings.SplitN(s, c, 2)
SplitN2(s, c) ==
    LET i == IndexOf(s, c)
    IN  IF i = 0 THEN <<s>>
        ELSE <<SubSeq(s, 1, i - 1), SubSeq(s, i + 1, Len(s))>>

RECURSIVE DigitsVal(_)
DigitsVal(s) ==
    IF s = <<>> THEN 0
    ELSE DigitsVal(SubSeq(s, 1, Len(s) - 1)) * 10 + DigitVal(s[Len(s)])

\* strconv.Atoi: an optional sign and at least one decimal digit; val is 0 on failure.
Atoi(s) ==
    LET signed == s # <<>> /\ s[1] \in {"+", "-"}
        body   == IF signed THEN Tail(s) ELSE s
    IN  IF body # <<>> /\ \A i \in 1..Len(body) : IsDigit(body[i])
        THEN [ok |-> TRUE,
              val |-> IF signed /\ s[1] = "-" THEN 0 - DigitsVal(body) ELSE DigitsVal(body)]
        ELSE [ok |-> FALSE, val |-> 0]

RECURSIVE Itoa(_)
\* fmt's %d of a natural number
Itoa(n) == IF n < 10 THEN <<DigitChars[n + 1]>> ELSE Itoa(n \div 10) \o <<DigitChars[(n % 10) + 1]>>

RECURSIVE JoinDots(_)
\* the dotted rendering of a tuple of naturals: <<1, 20, 6>> is "1.20.6"
JoinDots(t) ==
    IF Len(t) = 1 THEN Itoa(t[1])
    ELSE JoinDots(SubSeq(t, 1, Len(t) - 1)) \o <<".">> \o Itoa(t[Len(t)])

-----------------------------------------------------------------------------
(* providers: the semantic version comparator (paper.go, Fill API provider) *)

\* The index of the first decimal digit of s, 0 when it has none.
FirstDigit(s) ==
    IF \E i \in 1..Len(s) : IsDigit(s[i])
    THEN CHOOSE i \in 1..Len(s) : IsDigit(s[i]) /\ \A j \in 1..(i - 1) : ~IsDigit(s[j])
    ELSE 0

\* parseSemanticVersion reading major and minor only
parseSemanticVersionTwo(version) ==
    LET v        == ToLower(version)
        parts    == SplitN2(v, "-")
        hasPre   == Len(parts) > 1
        prePart  == IF hasPre THEN parts[2] ELSE <<>>
        d        == FirstDigit(prePart)
        loopPre  == IF hasPre /\ d > 0 THEN SubSeq(prePart, 1, d - 1) ELSE <<>>
        loopNum  == IF hasPre /\ d > 0 THEN Atoi(SubSeq(prePart, d, Len(prePart))).val ELSE 0
        versionParts == Split(parts[1], ".")
    IN  [major |-> Atoi(versionParts[1]).val,
         minor |-> IF Len(versionParts) >= 2 THEN Atoi(versionParts[2]).val ELSE 0,
         patch |-> 0,
         preRelease    |-> IF hasPre /\ loopPre = <<>> THEN prePart ELSE loopPre,
         preReleaseNum |-> loopNum]

parseSemanticVersion(version) ==
    LET v        == ToLower(version)
        parts    == SplitN2(v, "-")
        mainPart == parts[1]
        hasPre   == Len(parts) > 1
        prePart  == IF hasPre THEN parts[2] ELSE <<>>
        d        == FirstDigit(prePart)
        \* the loop over prePart stops at its first digit
        loopPre  == IF hasPre /\ d > 0 THEN SubSeq(prePart, 1, d - 1) ELSE <<>>
        loopNum  == IF hasPre /\ d > 0 THEN Atoi(SubSeq(prePart, d, Len(prePart))).val ELSE 0
        versionParts == Split(mainPart, ".")
    IN  [major |-> Atoi(versionParts[1]).val,
         minor |-> IF Len(versionParts) >= 2 THEN Atoi(versionParts[2]).val ELSE 0,
         patch |-> IF Len(versionParts) >= 3 THEN Atoi(versionParts[3]).val ELSE 0,
         preRelease    |-> IF hasPre /\ loopPre = <<>> THEN prePart ELSE loopPre,
         preReleaseNum |-> loopNum]

\* Version identifiers the comparator is run on

\* the largest minor and patch number of the generated identifiers
MaxSeg == 1

TagPre   == <<"-", "p", "r", "e">>
TagRc    == <<"-", "r", "c">>
TagBeta  == <<"-", "b", "e", "t", "a">>
TagAlpha == <<"-", "a", "l", "p", "h", "a">>
TagSnapshot == <<"-", "S", "N", "A", "P", "S", "H", "O", "T">>

V_1_21_1     == JoinDots(<<1, 21, 1>>)
V_1_21       == JoinDots(<<1, 21>>)
V_1_20       == JoinDots(<<1, 20>>)
V_1_20_pre1  == V_1_20 \o TagPre \o Itoa(1)
V_1_20_pre2  == V_1_20 \o TagPre \o Itoa(2)
V_1_20_rc1   == V_1_20 \o TagRc \o Itoa(1)
V_1_20_beta2 == V_1_20 \o TagBeta \o Itoa(2)
V_latest     == <<"l", "a", "t", "e", "s", "t">>

\* 1.y and 1.y.z for y, z up to MaxSeg, bare and with a pre or rc tag
GeneratedVersions ==
    LET mains == {<<1, y>> : y \in 0..MaxSeg} \cup {<<1, y, z>> : y \in 0..MaxSeg, z \in 0..MaxSeg}
        tags  == {<<>>, TagPre \o Itoa(1), TagRc \o Itoa(1)}
    IN  {JoinDots(m) \o t : m \in mains, t \in tags}

SampleVersions ==
    {V_1_21_1, V_1_21, V_1_20, V_1_20_pre1, V_1_20_pre2, V_1_20_rc1, V_1_20_beta2,
     V_1_20 \o TagAlpha \o Itoa(1), V_1_20 \o TagSnapshot, V_1_20 \o <<"-">>,
     V_1_20 \o <<"-">> \o Itoa(1), JoinDots(<<1, 20, 1, 5>>), V_latest}

\* the largest number behind a pre-release tag of the tagged identifiers
MaxTagNum == 2

\* the pre-release kinds as they are written, lowest first
KindTags == <<TagSnapshot, TagAlpha, TagBeta, TagPre, TagRc>>

\* 1.20 with each kind of tag and each tag number, by kind and number
TaggedVersions ==
    [k \in 1..Len(KindTags) |-> [n \in 1..MaxTagNum |-> V_1_20 \o KindTags[k] \o Itoa(n)]]

\* the main segments of the dotted identifiers: up to four components
MainTuples ==
    {<<1, y>> : y \in 0..MaxSeg} \cup {<<1, y, z>> : y \in 0..MaxSeg, z \in 0..MaxSeg}
        \cup {<<1, 20>>, <<1, 21>>, <<1, 20, 0>>, <<1, 20, 1>>, <<1, 21, 1>>,
              <<1, 20, 1, 0>>, <<1, 20, 1, 5>>, <<1, 20, 1, 6>>, <<2>>}

DottedVersions == {JoinDots(t) : t \in MainTuples}

CmpInputs ==
    GeneratedVersions \cup SampleVersions \cup DottedVersions
        \cup {TaggedVersions[k][n] : k \in 1..Len(KindTags), n \in 1..MaxTagNum}

\* the identifiers the model parses
VersionUniverse == CmpInputs

\* parseSemanticVersion, tabulated once over the identifiers of the model
ParsedVersions == [v \in VersionUniverse |-> parseSemanticVersion(v)]

\* the preOrder map with the ranks of beta and pre exchanged
preOrderSwapped(pre) ==
    CASE pre = <<"s", "n", "a", "p", "s", "h", "o", "t">> -> 1
      [] pre = <<"a", "l", "p", "h", "a">> -> 2
      [] pre = <<"b", "e", "t", "a">> -> 4
      [] pre = <<"p", "r", "e">> -> 3
      [] pre = <<"r", "c">> -> 5
      [] OTHER -> 0

\* the preOrder map of compareVersions; a kind it does not hold reads as 0
preOrder(pre) ==
    CASE pre = <<"s", "n", "a", "p", "s", "h", "o", "t">> -> 1
      [] pre = <<"a", "l", "p", "h", "a">> -> 2
      [] pre = <<"b", "e", "t", "a">> -> 3
      [] pre = <<"p", "r", "e">> -> 4
      [] pre = <<"r", "c">> -> 5
      [] OTHER -> 0

\* compareVersions without its second pre-release test (pre1 != "" && pre2 == "").
compareVersionsNoMirror(v1, v2) ==
    LET p1 == ParsedVersions[v1]
        p2 == ParsedVersions[v2]
    IN  IF p1.major # p2.major THEN (IF p1.major > p2.major THEN 1 ELSE -1)
        ELSE IF p1.minor # p2.minor THEN (IF p1.minor > p2.minor THEN 1 ELSE -1)
        ELSE IF p1.patch # p2.patch THEN (IF p1.patch > p2.patch THEN 1 ELSE -1)
        ELSE IF p1.preRelease = <<>> /\ p2.preRelease # <<>> THEN 1
        ELSE IF preOrder(p1.preRelease) # preOrder(p2.preRelease)
             THEN (IF preOrder(p1.preRelease) > preOrder(p2.preRelease) THEN 1 ELSE -1)
        ELSE IF p1.preReleaseNum # p2.preReleaseNum
             THEN (IF p1.preReleaseNum > p2.preReleaseNum THEN 1 ELSE -1)
        ELSE 0

\* the comparison of compareVersions on two parsed identifiers
compareParsed(p1, p2) ==
        IF p1.major # p2.major THEN (IF p1.major > p2.major THEN 1 ELSE -1)
        ELSE IF p1.minor # p2.minor THEN (IF p1.minor > p2.minor THEN 1 ELSE -1)
        ELSE IF p1.patch # p2.patch THEN (IF p1.patch > p2.patch THEN 1 ELSE -1)
        ELSE IF p1.preRelease = <<>> /\ p2.preRelease # <<>> THEN 1
        ELSE IF p1.preRelease # <<>> /\ p2.preRelease = <<>> THEN -1
        ELSE IF preOrder(p1.preRelease) # preOrder(p2.preRelease)
             THEN (IF preOrder(p1.preRelease) > preOrder(p2.preRelease) THEN 1 ELSE -1)
        ELSE IF p1.preReleaseNum # p2.preReleaseNum
             THEN (IF p1.preReleaseNum > p2.preReleaseNum THEN 1 ELSE -1)
        ELSE 0

\* the providers package's compareVersions
compareVersions(v1, v2) == compareParsed(ParsedVersions[v1], ParsedVersions[v2])

CmpInit ==
    /\ cmpA \in CmpInputs
    /\ cmpB \in CmpInputs
    /\ cmpC \in CmpInputs
    /\ cmpRes = [done |-> FALSE, ab |-> 0, ba |-> 0, bc |-> 0, cb |-> 0, ac |-> 0, ca |-> 0]

\* compare every ordered pair of the three inputs
Compare ==
    /\ ~cmpRes.done
    /\ cmpRes' = [done |-> TRUE,
                  ab |-> compareVersions(cmpA, cmpB), ba |-> compareVersions(cmpB, cmpA),
                  bc |-> compareVersions(cmpB, cmpC), cb |-> compareVersions(cmpC, cmpB),
                  ac |-> compareVersions(cmpA, cmpC), ca |-> compareVersions(cmpC, cmpA)]
    /\ UNCHANGED <<cmpA, cmpB, cmpC>>
    /\ UNCHANGED notCmp

CmpNext == Compare

InitCmp == CmpInit /\ JavaIdle /\ FilterIdle /\ CacheIdle /\ ProvIdle /\ SvcIdle /\ ListIdle
        /\ FanIdle /\ ManIdle

SpecCmp == InitCmp /\ [][CmpNext]_vars

\* C9: the comparator is antisymmetric and transitive, and orders
\* 1.21.1 > 1.21, 1.20 > 1.20-pre1, 1.20-rc1 > 1.20-beta2, 1.20-pre2 > 1.20-pre1.
C9_ComparatorOrder ==
    cmpRes.done =>
        /\ cmpRes.ab = 0 - cmpRes.ba
        /\ cmpRes.bc = 0 - cmpRes.cb
        /\ cmpRes.ac = 0 - cmpRes.ca
        /\ (cmpRes.ab = 1 /\ cmpRes.bc = 1) => cmpRes.ac = 1
        /\ (cmpRes.ab = 0 /\ cmpRes.bc = 0) => cmpRes.ac = 0
        /\ (cmpA = V_1_21_1 /\ cmpB = V_1_21) => cmpRes.ab = 1
        /\ (cmpA = V_1_20 /\ cmpB = V_1_20_pre1) => cmpRes.ab = 1
        /\ (cmpA = V_1_20_rc1 /\ cmpB = V_1_20_beta2) => cmpRes.ab = 1
        /\ (cmpA = V_1_20_pre2 /\ cmpB = V_1_20_pre1) => cmpRes.ab = 1

\* a release, a release candidate and a beta of one main version, compared
C9_Witness ==
    /\ cmpRes.done
    /\ cmpA = V_1_20 /\ cmpB = V_1_20_rc1 /\ cmpC = V_1_20_beta2
    /\ cmpRes.ab = 1 /\ cmpRes.bc = 1 /\ cmpRes.ac = 1

\* the sign of the difference of two integers
Sign(x) == IF x > 0 THEN 1 ELSE IF x < 0 THEN -1 ELSE 0

\* C18: with equal main segments, the version without a pre-release tag outranks every
\* tagged one; two tagged ones are ordered by kind, snapshot < alpha < beta < pre < rc,
\* and two of one kind by the number behind the tag
C18_PreReleaseOrder ==
    cmpRes.done =>
        \A k1, k2 \in 1..Len(KindTags), n1, n2 \in 1..MaxTagNum :
            /\ (cmpA = V_1_20 /\ cmpB = TaggedVersions[k2][n2]) =>
                  (cmpRes.ab = 1 /\ cmpRes.ba = -1)
            /\ (cmpA = TaggedVersions[k1][n1] /\ cmpB = TaggedVersions[k2][n2]) =>
                  cmpRes.ab = IF k1 # k2 THEN Sign(k1 - k2) ELSE Sign(n1 - n2)

\* a beta and a pre of one number, and two release candidates, compared
C18_Witness ==
    /\ cmpRes.done
    /\ cmpA = TaggedVersions[3][2] /\ cmpB = TaggedVersions[4][1] /\ cmpC = TaggedVersions[4][2]
    /\ cmpRes.ab = -1 /\ cmpRes.bc = -1

\* the main segment of a dotted identifier
MainOf == [v \in DottedVersions |-> CHOOSE t \in MainTuples : JoinDots(t) = v]

\* component i of a main segment, zero when it is missing
At(t, i) == IF i <= Len(t) THEN t[i] ELSE 0

RECURSIVE CompareFrom(_, _, _, _)
\* the first differing component among components i to n decides
CompareFrom(a, b, i, n) ==
    IF i > n THEN 0
    ELSE IF At(a, i) # At(b, i) THEN Sign(At(a, i) - At(b, i))
    ELSE CompareFrom(a, b, i + 1, n)

LongerLen(a, b) == IF Len(a) > Len(b) THEN Len(a) ELSE Len(b)

\* C19 as stated: every component the two main segments have is compared, left to right,
\* a missing one as zero
C19_AllComponents ==
    (cmpRes.done /\ cmpA \in DottedVersions /\ cmpB \in DottedVersions) =>
        cmpRes.ab = CompareFrom(MainOf[cmpA], MainOf[cmpB], 1,
                                LongerLen(MainOf[cmpA], MainOf[cmpB]))

\* C19: the first three components of the main segments (major, minor, patch) are
\* compared left to right, a missing one as zero, and the first that differs decides;
\* components after the third are not looked at
C19_FirstThreeComponents ==
    (cmpRes.done /\ cmpA \in DottedVersions /\ cmpB \in DottedVersions) =>
        cmpRes.ab = CompareFrom(MainOf[cmpA], MainOf[cmpB], 1, 3)

\* two identifiers that differ in the fourth component only, compared as equal, next to a
\* pair the missing patch decides
C19_Witness ==
    /\ cmpRes.done
    /\ cmpA = JoinDots(<<1, 20, 1, 5>>) /\ cmpB = JoinDots(<<1, 20, 1, 6>>) /\ cmpC = V_1_20
    /\ cmpRes.ab = 0 /\ cmpRes.bc = 1


-----------------------------------------------------------------------------
(* java: the requirement resolver (the java package with weekly snapshots) *)

\* the largest two-digit year of the generated weekly snapshot identifiers
MaxWeeklyYear == 25

Str_v      == <<"v">>
Str_0      == <<"0">>
Str_rd     == <<"r", "d", "-">>
Str_inf    == <<"i", "n", "f", "-">>
Str_indev  == <<"i", "n", "d", "e", "v">>

\* a rule table by its numbers: each rule's MinVersion as a tuple of naturals
T_example == <<[min |-> <<1, 20, 5>>, java |-> 21], [min |-> <<1, 18>>, java |-> 17],
               [min |-> <<0>>, java |-> 8]>>
T_servers == <<[min |-> <<1, 21>>, java |-> 21], [min |-> <<1, 20, 5>>, java |-> 21],
               [min |-> <<1, 18>>, java |-> 17], [min |-> <<1, 17>>, java |-> 16],
               [min |-> <<1, 12>>, java |-> 8], [min |-> <<0>>, java |-> 8]>>
T_proxies == <<[min |-> <<3, 3>>, java |-> 17], [min |-> <<3, 0>>, java |-> 11],
               [min |-> <<0>>, java |-> 11]>>
T_unsorted == <<[min |-> <<1, 0>>, java |-> 11], [min |-> <<1, 1>>, java |-> 16]>>
T_empty == <<>>

RuleTables == {T_example, T_servers, T_proxies, T_unsorted, T_empty}

\* the rules as the file states them: MinVersion a dotted string
RenderTable(T) == [i \in 1..Len(T) |-> [MinVersion |-> JoinDots(T[i].min), Java |-> T[i].java]]

JavaConfigs ==
    {[Servers |-> RenderTable(T_example), Proxies |-> RenderTable(T_proxies), Default |-> 17],
     [Servers |-> RenderTable(T_servers), Proxies |-> RenderTable(T_unsorted), Default |-> 11],
     [Servers |-> RenderTable(T_unsorted), Proxies |-> RenderTable(T_empty), Default |-> 9]}

\* what os.ReadFile and json.Unmarshal can find at JAVA_CONFIG_PATH
JavaFiles ==
    {[kind |-> "missing", cfg |-> ZeroConfig], [kind |-> "garbage", cfg |-> ZeroConfig]}
        \cup {[kind |-> "json", cfg |-> c] : c \in JavaConfigs}

TwoDigits(n) == IF n < 10 THEN <<"0">> \o Itoa(n) ELSE Itoa(n)

\* a weekly snapshot identifier: YYwWWx
WeeklyId(yy, ww, letter) == TwoDigits(yy) \o <<"w">> \o TwoDigits(ww) \o <<letter>>

WeeklyYears == {17, 20, 21} \cup 23..MaxWeeklyYear
WeeklyWeeks == {1, 39, 40}

WeeklyInputs ==
    {WeeklyId(y, w, l) : y \in WeeklyYears, w \in WeeklyWeeks, l \in {"a", "b"}}
        \cup {<<"2", "4", "W", "3", "3", "A">>}

LegacyInputs ==
    {<<"b", "1", ".", "8", ".", "1">>, <<"a", "1", ".", "2", ".", "6">>, <<"c", "0", ".", "3", "0">>,
     <<"r", "d", "-", "1", "3", "2", "2", "1", "1">>, <<"i", "n", "f", "-", "2", "0", "1", "0">>,
     <<"I", "n", "d", "e", "v">>}

\* numeric dotted inputs, by their numbers
NumericTuples ==
    {<<1, y>> : y \in 0..MaxSeg} \cup {<<1, y, z>> : y \in 0..MaxSeg, z \in 0..MaxSeg}
        \cup {<<1, 20, 6>>, <<1, 19>>, <<1, 5>>, <<1, 21>>, <<1, 17, 1>>, <<1, 20, 5>>, <<1, 20, 4>>,
              <<3, 3>>, <<3, 1, 2>>, <<2>>}

\* the main versions of the pre-release inputs
PreReleaseTuples == {<<1, 18>>, <<1, 20>>}

\* the first pre-release of main version t
PreOf(t) == JoinDots(t) \o TagPre \o Itoa(1)

JavaInputs ==
    {JoinDots(t) : t \in NumericTuples} \cup WeeklyInputs \cup LegacyInputs
        \cup {PreOf(t) : t \in PreReleaseTuples}
        \cup {V_latest, <<"v">> \o V_1_21, <<>>, <<"x", "y">>}

\* parseVersionParts reading each dot-separated part whole, its "-" suffix included
parseVersionPartsWholePart(version) ==
    LET v     == TrimPrefix(version, Str_v)
        parts == Split(v, ".")
        nums  == [i \in 1..Len(parts) |-> Atoi(parts[i])]
    IN  IF Len(v) = 0 \/ ~IsDigit(v[1]) THEN <<>>
        ELSE [i \in 1..Len(SelectSeq(nums, LAMBDA n : n.ok)) |-> SelectSeq(nums, LAMBDA n : n.ok)[i].val]

parseVersionParts(version) ==
    LET v     == TrimPrefix(version, Str_v)
        parts == Split(v, ".")
        nums  == [i \in 1..Len(parts) |-> Atoi(Split(parts[i], "-")[1])]
    IN  IF Len(v) = 0 \/ ~IsDigit(v[1]) THEN <<>>
        ELSE [i \in 1..Len(SelectSeq(nums, LAMBDA n : n.ok)) |-> SelectSeq(nums, LAMBDA n : n.ok)[i].val]

\* the strings the resolver compares: the inputs and the rules' MinVersions
JavaUniverse ==
    JavaInputs \cup UNION {{JoinDots(T[i].min) : i \in 1..Len(T)} : T \in RuleTables}
        \cup {V_1_21_1, V_1_20}


\* parseVersionParts, tabulated once over the strings of the model
VersionParts == [v \in JavaUniverse |-> parseVersionParts(v)]

PartAt(parts, i) == IF i <= Len(parts) THEN parts[i] ELSE 0

\* the comparison loop: the sign of the first differing part, 0 when none differs
ComparePartsLoop(parts1, parts2) ==
    LET maxLen == IF Len(parts2) > Len(parts1) THEN Len(parts2) ELSE Len(parts1)
        diff   == {i \in 1..maxLen : PartAt(parts1, i) # PartAt(parts2, i)}
        first  == CHOOSE i \in diff : \A j \in diff : i <= j
    IN  IF diff = {} THEN 0
        ELSE IF PartAt(parts1, first) > PartAt(parts2, first) THEN 1 ELSE -1

\* the java package's compareVersions, comparing the first two parts only
javaCompareVersionsTwoParts(v1, v2) ==
    IF v1 = V_latest THEN 1
    ELSE IF v2 = Str_0 THEN 1
    ELSE IF Len(VersionParts[v1]) = 0 THEN -1
    ELSE LET first2(parts) == IF Len(parts) > 2 THEN SubSeq(parts, 1, 2) ELSE parts
         IN  ComparePartsLoop(first2(VersionParts[v1]), first2(VersionParts[v2]))

\* the java package's compareVersions
javaCompareVersions(v1, v2) ==
    IF v1 = V_latest THEN 1
    ELSE IF v2 = Str_0 THEN 1
    ELSE IF Len(VersionParts[v1]) = 0 THEN -1
    ELSE ComparePartsLoop(VersionParts[v1], VersionParts[v2])

isProxy(category) == category = CategoryVelocity \/ category = CategoryBungeeCord

\* the legacy test of GetRequirement, on the lower-cased identifier
isLegacy(lowerVersion) ==
    \/ HasPrefix(lowerVersion, <<"a">>)
    \/ HasPrefix(lowerVersion, <<"b">>)
    \/ HasPrefix(lowerVersion, <<"c">>)
    \/ HasPrefix(lowerVersion, Str_rd)
    \/ HasPrefix(lowerVersion, Str_inf)
    \/ Contains(lowerVersion, Str_indev)

\* weeklySnapshotRegex: ^(\d{2})w(\d{2})[a-z]$
weeklySnapshotMatch(s) ==
    /\ Len(s) = 6
    /\ IsDigit(s[1]) /\ IsDigit(s[2])
    /\ s[3] = "w"
    /\ IsDigit(s[4]) /\ IsDigit(s[5])
    /\ IsLowerLetter(s[6])

\* the year/week mapping with the 2024 threshold one year late
weeklyJavaLate(year, week) ==
    IF year > 24 THEN 21
    ELSE IF year = 23 /\ week >= 40 THEN 21
    ELSE IF year >= 21 THEN 17
    ELSE 8

\* the year/week mapping of the weekly snapshot branch
weeklyJava(year, week) ==
    IF year >= 24 THEN 21
    ELSE IF year = 23 /\ week >= 40 THEN 21
    ELSE IF year >= 21 THEN 17
    ELSE IF year >= 17 THEN 8
    ELSE 8

\* the scan of the requirements: the Java of the first rule the version reaches
ScanRequirements(requirements, version, default) ==
    LET hits == {i \in 1..Len(requirements) :
                    javaCompareVersions(version, requirements[i].MinVersion) >= 0}
    IN  IF hits = {} THEN default
        ELSE requirements[CHOOSE i \in hits : \A j \in hits : i <= j].Java

\* GetRequirement with the load error looked at after the legacy and weekly branches
GetRequirementErrLate(cfg, err, version, category) ==
    LET lowerVersion == ToLower(version)
    IN  IF isLegacy(lowerVersion) THEN 8
        ELSE IF weeklySnapshotMatch(lowerVersion)
             THEN weeklyJava(Atoi(SubSeq(lowerVersion, 1, 2)).val, Atoi(SubSeq(lowerVersion, 4, 5)).val)
        ELSE IF err THEN 17
        ELSE ScanRequirements(IF isProxy(category) THEN cfg.Proxies ELSE cfg.Servers,
                              version, cfg.Default)

\* GetRequirement with the rule table scanned before the legacy and weekly branches
GetRequirementTableFirst(cfg, err, version, category) ==
    LET lowerVersion == ToLower(version)
        scanned == ScanRequirements(IF isProxy(category) THEN cfg.Proxies ELSE cfg.Servers,
                                    version, 0)
    IN  IF err THEN 17
        ELSE IF scanned # 0 THEN scanned
        ELSE IF isLegacy(lowerVersion) THEN 8
        ELSE IF weeklySnapshotMatch(lowerVersion)
             THEN weeklyJava(Atoi(SubSeq(lowerVersion, 1, 2)).val, Atoi(SubSeq(lowerVersion, 4, 5)).val)
        ELSE cfg.Default

\* GetRequirement, given what loadConfig returned
GetRequirement(cfg, err, version, category) ==
    LET lowerVersion == ToLower(version)
    IN  IF err THEN 17
        ELSE IF isLegacy(lowerVersion) THEN 8
        ELSE IF weeklySnapshotMatch(lowerVersion)
             THEN weeklyJava(Atoi(SubSeq(lowerVersion, 1, 2)).val, Atoi(SubSeq(lowerVersion, 4, 5)).val)
        ELSE ScanRequirements(IF isProxy(category) THEN cfg.Proxies ELSE cfg.Servers,
                              version, cfg.Default)

\* what configOnce.Do leaves in config and configErr when it reads file f
LoadedConfig(f) == IF f.kind = "json" THEN f.cfg ELSE ZeroConfig
LoadedErr(f) == f.kind # "json"

JavaCategories == {CategoryPaper, CategoryVelocity}

JavaInit ==
    /\ javaFile \in JavaFiles
    /\ configOnce = FALSE
    /\ config = ZeroConfig
    /\ configErr = FALSE
    /\ javaLast = [done |-> FALSE, version |-> <<>>, category |-> CategoryPaper, result |-> 0]

\* a call of GetRequirement: loadConfig (once), then the resolution
JavaCall(version, category) ==
    LET cfg == IF configOnce THEN config ELSE LoadedConfig(javaFile)
        err == IF configOnce THEN configErr ELSE LoadedErr(javaFile)
    IN  /\ configOnce' = TRUE
        /\ config' = cfg
        /\ configErr' = err
        /\ javaLast' = [done |-> TRUE, version |-> version, category |-> category,
                        result |-> GetRequirement(cfg, err, version, category)]
        /\ UNCHANGED javaFile
        /\ UNCHANGED notJava

\* the rule file is edited, removed or created while the process runs
JavaFileEdit(f) ==
    /\ f # javaFile
    /\ javaFile' = f
    /\ UNCHANGED <<configOnce, config, configErr, javaLast>>
    /\ UNCHANGED notJava

JavaNext ==
    \/ \E v \in JavaInputs, c \in JavaCategories : JavaCall(v, c)
    \/ \E f \in JavaFiles : JavaFileEdit(f)

InitJava == JavaInit /\ CmpIdle /\ FilterIdle /\ CacheIdle /\ ProvIdle /\ SvcIdle /\ ListIdle
        /\ FanIdle /\ ManIdle

SpecJava == InitJava /\ [][JavaNext]_vars

\* m <= t for tuples of naturals, a missing trailing number read as 0
TupleLeq(m, t) ==
    LET n    == IF Len(m) > Len(t) THEN Len(m) ELSE Len(t)
        diff == {i \in 1..n : PartAt(m, i) # PartAt(t, i)}
    IN  diff = {} \/ LET f == CHOOSE i \in diff : \A j \in diff : i <= j
                     IN  PartAt(m, f) < PartAt(t, f)

\* the Java of the first rule of table T whose MinVersion is at most t
FirstRuleJava(T, t, default) ==
    IF \E i \in 1..Len(T) : TupleLeq(T[i].min, t)
    THEN T[CHOOSE i \in 1..Len(T) : TupleLeq(T[i].min, t) /\ \A j \in 1..(i - 1) : ~TupleLeq(T[j].min, t)].java
    ELSE default

\* the rule table GetRequirement uses for the last call's category
TableInUse == IF isProxy(javaLast.category) THEN config.Proxies ELSE config.Servers

\* C7: with the rule file loaded, a numeric dotted input gets the Java of the first
\* rule, top to bottom, whose MinVersion is at most the input, and the configured
\* default when there is none; with the table 1.20.5:21, 1.18:17, 0:8 the inputs
\* 1.20.6, 1.19 and 1.5 get 21, 17 and 8.
C7_FirstRuleWins ==
    (javaLast.done /\ ~configErr) =>
        /\ \A t \in NumericTuples, T \in RuleTables :
              (javaLast.version = JoinDots(t) /\ TableInUse = RenderTable(T))
                  => javaLast.result = FirstRuleJava(T, t, config.Default)
        /\ TableInUse = RenderTable(T_example) =>
              /\ javaLast.version = JoinDots(<<1, 20, 6>>) => javaLast.result = 21
              /\ javaLast.version = JoinDots(<<1, 19>>) => javaLast.result = 17
              /\ javaLast.version = JoinDots(<<1, 5>>) => javaLast.result = 8

\* 1.19 resolved with the example table
C7_Witness ==
    /\ javaLast.done /\ ~configErr
    /\ TableInUse = RenderTable(T_example)
    /\ javaLast.version = JoinDots(<<1, 19>>)
    /\ javaLast.result = 17

\* a version below every rule of its table gets the configured default
C7_WitnessDefault ==
    /\ javaLast.done /\ ~configErr
    /\ TableInUse = RenderTable(T_unsorted)
    /\ javaLast.version = JoinDots(<<1, 0>>) \/ javaLast.version = JoinDots(<<1, 1>>)

\* C8: with the rule file loaded, a weekly snapshot identifier of year 24 or later
\* gets 21, for a server and for a proxy category, whatever the rule tables hold.
C8_WeeklySnapshotNewest ==
    (javaLast.done /\ ~configErr) =>
        \A y \in 24..MaxWeeklyYear, w \in WeeklyWeeks, l \in {"a", "b"} :
            javaLast.version = WeeklyId(y, w, l) => javaLast.result = 21

\* 24w01a resolved for a proxy under a table that holds no 21
C8_Witness ==
    /\ javaLast.done /\ ~configErr
    /\ javaLast.version = WeeklyId(24, 1, "a")
    /\ javaLast.category = CategoryVelocity
    /\ config.Proxies = RenderTable(T_unsorted)
    /\ javaLast.result = 21

\* C16: when the rule file was missing or unparseable at the first call, every call
\* answers 17, for legacy and weekly identifiers and for every category; the load is
\* made once, and its outcome (the error included) stays whatever the file becomes
C16_FailOpen ==
    /\ []((javaLast.done /\ configErr) => javaLast.result = 17)
    /\ [][configOnce => (configOnce' /\ config' = config /\ configErr' = configErr)]_vars

\* a weekly snapshot answered 17 for a proxy after the load failed, the file since repaired
C16_Witness ==
    /\ javaLast.done /\ configErr
    /\ javaFile.kind = "json"
    /\ javaLast.version = WeeklyId(24, 1, "a")
    /\ javaLast.category = CategoryVelocity
    /\ javaLast.result = 17

\* a legacy identifier answered 17 with the rule file unparseable
C16_WitnessLegacy ==
    /\ javaLast.done /\ configErr
    /\ javaFile.kind = "garbage"
    /\ javaLast.version \in LegacyInputs
    /\ javaLast.result = 17

\* the Java of a weekly snapshot by its year and week, as the timeline has it
WeeklyTimeline(y, w) ==
    CASE y >= 24 -> 21
      [] y = 23 -> IF w >= 40 THEN 21 ELSE 17
      [] y \in {21, 22} -> 17
      [] OTHER -> 8

\* C25: with the rule file loaded, a legacy identifier gets 8 and a weekly snapshot
\* identifier gets the Java of its year and week, for a server and for a proxy category and
\* whatever the rule tables hold: both are settled before the rule table is looked at
C25_SpecialCasesFirst ==
    (javaLast.done /\ ~configErr) =>
        /\ javaLast.version \in LegacyInputs => javaLast.result = 8
        /\ \A y \in WeeklyYears, w \in WeeklyWeeks, l \in {"a", "b"} :
              javaLast.version = WeeklyId(y, w, l) => javaLast.result = WeeklyTimeline(y, w)

\* the legacy identifier b1.8.1 resolved for a proxy under a table whose catch-all rule
\* says 11
C25_Witness ==
    /\ javaLast.done /\ ~configErr
    /\ javaLast.version = <<"b", "1", ".", "8", ".", "1">>
    /\ javaLast.category = CategoryVelocity
    /\ config.Proxies = RenderTable(T_proxies)
    /\ javaLast.result = 8

\* a 2021 weekly snapshot resolved to 17 for a server under a table without a 17
C25_WitnessWeekly ==
    /\ javaLast.done /\ ~configErr
    /\ javaLast.version = WeeklyId(21, 39, "b")
    /\ javaLast.category = CategoryPaper
    /\ config.Servers = RenderTable(T_unsorted)
    /\ javaLast.result = 17

\* the last call reached the scan of the rule table
ScannedTable ==
    /\ javaLast.done /\ ~configErr
    /\ ~isLegacy(ToLower(javaLast.version))
    /\ ~weeklySnapshotMatch(ToLower(javaLast.version))

\* providers' parseSemanticVersion over the strings the resolver compares
SemanticParts == [v \in JavaUniverse |-> parseSemanticVersion(v)]

\* m is at most v under providers' compareVersions
SemanticAtMost(m, v) == compareParsed(SemanticParts[v], SemanticParts[m]) >= 0

\* the Java of the first rule whose MinVersion is at most v under providers' compareVersions
SemanticScan(requirements, v, default) ==
    LET hits == {i \in 1..Len(requirements) : SemanticAtMost(requirements[i].MinVersion, v)}
    IN  IF hits = {} THEN default
        ELSE requirements[CHOOSE i \in hits : \A j \in hits : i <= j].Java

-----------------------------------------------------------------------------
(* service: version filtering (GetVersionsFiltered) *)

\* the longest version list the filter is run on
MaxListLen == 2

\* the last instant of the model's clock; 0 is the zero time.Time
MaxTime == 4

\* time.Time.Year(): two instants a year, from 2023 on
Year(t) == 2023 + ((t - 1) \div 2)

IsZero(t) == t = 0

VersionTypeRelease  == "release"
VersionTypeSnapshot == "snapshot"
VersionTypeBeta     == "beta"
VersionTypeAlpha    == "alpha"

V_1_19 == JoinDots(<<1, 19>>)
V_1_18 == JoinDots(<<1, 18>>)

\* Version records of every kind the predicates tell apart
FilterPool ==
    {[ID |-> V_1_21, Type |-> VersionTypeRelease, ReleaseTime |-> 4, Stable |-> TRUE, Java |-> 21],
     [ID |-> V_1_20, Type |-> VersionTypeRelease, ReleaseTime |-> 2, Stable |-> TRUE, Java |-> 17],
     [ID |-> V_1_20_pre1, Type |-> VersionTypeSnapshot, ReleaseTime |-> 3, Stable |-> FALSE, Java |-> 21],
     [ID |-> V_1_19, Type |-> VersionTypeRelease, ReleaseTime |-> 0, Stable |-> TRUE, Java |-> 17],
     [ID |-> V_1_18, Type |-> VersionTypeRelease, ReleaseTime |-> 1, Stable |-> FALSE, Java |-> 17]}

FilterLists == UNION {[1..n -> FilterPool] : n \in 0..MaxListLen}

\* options that set exactly one filter
SingleFilters ==
    {[NoFilter EXCEPT !.Type = <<t>>] : t \in {VersionTypeRelease, VersionTypeSnapshot}}
        \cup {[NoFilter EXCEPT !.StableOnly = TRUE]}
        \cup {[NoFilter EXCEPT !.Java = <<j>>] : j \in {17, 21}}
        \cup {[NoFilter EXCEPT !.After = <<t>>] : t \in {2, 3}}
        \cup {[NoFilter EXCEPT !.Before = <<t>>] : t \in {2, 3}}
        \cup {[NoFilter EXCEPT !.MinYear = <<y>>] : y \in {2024, 2025}}
        \cup {[NoFilter EXCEPT !.MaxYear = <<y>>] : y \in {2023, 2024}}

\* the loop body with the year tests chained: MaxYear is read only when MinYear is nil
VersionPassesElseIf(v, opts) ==
    /\ ~(opts.Type # <<>> /\ v.Type # opts.Type[1])
    /\ ~(opts.StableOnly /\ ~v.Stable)
    /\ ~(opts.Java # <<>> /\ v.Java # opts.Java[1])
    /\ ~(opts.After # <<>> /\ ~IsZero(v.ReleaseTime) /\ v.ReleaseTime < opts.After[1])
    /\ ~(opts.Before # <<>> /\ ~IsZero(v.ReleaseTime) /\ v.ReleaseTime > opts.Before[1])
    /\ IF opts.MinYear # <<>>
       THEN ~(~IsZero(v.ReleaseTime) /\ Year(v.ReleaseTime) < opts.MinYear[1])
       ELSE ~(opts.MaxYear # <<>> /\ ~IsZero(v.ReleaseTime) /\ Year(v.ReleaseTime) > opts.MaxYear[1])

\* the loop body with the date and year tests made on the zero time as on any other
VersionPassesZeroDated(v, opts) ==
    /\ ~(opts.Type # <<>> /\ v.Type # opts.Type[1])
    /\ ~(opts.StableOnly /\ ~v.Stable)
    /\ ~(opts.Java # <<>> /\ v.Java # opts.Java[1])
    /\ ~(opts.After # <<>> /\ v.ReleaseTime < opts.After[1])
    /\ ~(opts.Before # <<>> /\ v.ReleaseTime > opts.Before[1])
    /\ ~(opts.MinYear # <<>> /\ Year(v.ReleaseTime) < opts.MinYear[1])
    /\ ~(opts.MaxYear # <<>> /\ Year(v.ReleaseTime) > opts.MaxYear[1])

\* the loop body of GetVersionsFiltered: TRUE when no test reaches its continue
VersionPasses(v, opts) ==
    /\ ~(opts.Type # <<>> /\ v.Type # opts.Type[1])
    /\ ~(opts.StableOnly /\ ~v.Stable)
    /\ ~(opts.Java # <<>> /\ v.Java # opts.Java[1])
    /\ ~(opts.After # <<>> /\ ~IsZero(v.ReleaseTime) /\ v.ReleaseTime < opts.After[1])
    /\ ~(opts.Before # <<>> /\ ~IsZero(v.ReleaseTime) /\ v.ReleaseTime > opts.Before[1])
    /\ ~(opts.MinYear # <<>> /\ ~IsZero(v.ReleaseTime) /\ Year(v.ReleaseTime) < opts.MinYear[1])
    /\ ~(opts.MaxYear # <<>> /\ ~IsZero(v.ReleaseTime) /\ Year(v.ReleaseTime) > opts.MaxYear[1])

\* the filtering loop of GetVersionsFiltered over a fetched list
FilterVersions(versions, opts) == SelectSeq(versions, LAMBDA v : VersionPasses(v, opts))

\* GetName of each provider
ProviderName(p) ==
    CASE p = CategoryPaper -> <<"P", "a", "p", "e", "r">>
      [] p = CategoryPurpur -> <<"P", "u", "r", "p", "u", "r">>
      [] OTHER -> <<"V", "a", "n", "i", "l", "l", "a">>

\* the filters of the inner loop of JarsService.Search
SearchMatches(v, p, opts) ==
    /\ VersionPasses(v, opts.filter)
    /\ \/ opts.Query = <<>>
       \/ Contains(ToLower(v.ID), ToLower(opts.Query))
       \/ Contains(ToLower(ProviderName(p)), ToLower(opts.Query))

\* the results one provider's versions add
ResultsFrom(versions, p, opts) ==
    Bind(SelectSeq(versions, LAMBDA v : SearchMatches(v, p, opts)), LAMBDA found :
        [i \in 1..Len(found) |->
            [Category |-> p, Version |-> found[i].ID, Java |-> found[i].Java]])

\* the provider whose versions the search of the filter runs goes through
SearchedProvider == CategoryPaper

\* the query strings of those searches: none, part of an identifier, part of the name
FilterQueries == {<<>>, <<"1", ".", "2">>, <<"P", "A">>}

\* the options of one call that sets what a and b set (a's value where both set a field)
MergeFilters(a, b) ==
    [Type |-> IF a.Type # <<>> THEN a.Type ELSE b.Type,
     StableOnly |-> a.StableOnly \/ b.StableOnly,
     Java |-> IF a.Java # <<>> THEN a.Java ELSE b.Java,
     After |-> IF a.After # <<>> THEN a.After ELSE b.After,
     Before |-> IF a.Before # <<>> THEN a.Before ELSE b.Before,
     MinYear |-> IF a.MinYear # <<>> THEN a.MinYear ELSE b.MinYear,
     MaxYear |-> IF a.MaxYear # <<>> THEN a.MaxYear ELSE b.MaxYear]

\* a and b set no common field
DisjointFilters(a, b) ==
    /\ a.Type = <<>> \/ b.Type = <<>>
    /\ ~(a.StableOnly /\ b.StableOnly)
    /\ a.Java = <<>> \/ b.Java = <<>>
    /\ a.After = <<>> \/ b.After = <<>>
    /\ a.Before = <<>> \/ b.Before = <<>>
    /\ a.MinYear = <<>> \/ b.MinYear = <<>>
    /\ a.MaxYear = <<>> \/ b.MaxYear = <<>>

FilterInit ==
    /\ fList \in FilterLists
    /\ fOptA \in SingleFilters
    /\ fOptB \in SingleFilters
    /\ fRes = [done |-> FALSE, ab |-> <<>>, ba |-> <<>>, both |-> <<>>,
               query |-> <<>>, search |-> <<>>]

\* filter by A then B, by B then A, and by both in one call; and the inner loop of a
\* search with both and a query over the same list
ApplyFilters ==
    /\ ~fRes.done
    /\ \E q \in FilterQueries :
          fRes' = [done |-> TRUE,
                   ab |-> FilterVersions(FilterVersions(fList, fOptA), fOptB),
                   ba |-> FilterVersions(FilterVersions(fList, fOptB), fOptA),
                   both |-> FilterVersions(fList, MergeFilters(fOptA, fOptB)),
                   query |-> q,
                   search |-> ResultsFrom(fList, SearchedProvider,
                                          [filter |-> MergeFilters(fOptA, fOptB), Query |-> q,
                                           Category |-> <<>>])]
    /\ UNCHANGED <<fList, fOptA, fOptB>>
    /\ UNCHANGED notFilter

FilterNext == ApplyFilters

InitFilter == FilterInit /\ CmpIdle /\ JavaIdle /\ CacheIdle /\ ProvIdle /\ SvcIdle /\ ListIdle
        /\ FanIdle /\ ManIdle

SpecFilter == InitFilter /\ [][FilterNext]_vars

Range(q) == {q[i] : i \in 1..Len(q)}

\* C6: filtering a list by one predicate and the result by another gives the same set
\* of versions in either order, and the same set as one call with both predicates.
C6_FilterCommutes ==
    fRes.done =>
        /\ Range(fRes.ab) = Range(fRes.ba)
        /\ DisjointFilters(fOptA, fOptB) => Range(fRes.both) = Range(fRes.ab)

\* stable-only and min_year 2024, each dropping a version the other keeps
C6_Witness ==
    /\ fRes.done
    /\ fOptA = [NoFilter EXCEPT !.StableOnly = TRUE]
    /\ fOptB = [NoFilter EXCEPT !.MinYear = <<2024>>]
    /\ Len(FilterVersions(fList, fOptA)) = 1
    /\ Len(FilterVersions(fList, fOptB)) = 1
    /\ FilterVersions(fList, fOptA) # FilterVersions(fList, fOptB)
    /\ fRes.ab = <<>> /\ fRes.ba = <<>> /\ fRes.both = <<>>

RECURSIVE IsSubList(_, _)
\* sub is full with some of its elements left out, the others in their order
IsSubList(sub, full) ==
    IF sub = <<>> THEN TRUE
    ELSE IF full = <<>> THEN FALSE
    ELSE IF Head(sub) = Head(full) THEN IsSubList(Tail(sub), Tail(full))
    ELSE IsSubList(sub, Tail(full))

\* v meets the type, stability and Java options of opts
MeetsKind(v, opts) ==
    /\ opts.Type = <<>> \/ v.Type = opts.Type[1]
    /\ opts.StableOnly => v.Stable
    /\ opts.Java = <<>> \/ v.Java = opts.Java[1]

\* v meets the query of a search over provider p
MeetsQuery(v, p, q) ==
    \/ q = <<>>
    \/ Contains(ToLower(v.ID), ToLower(q))
    \/ Contains(ToLower(ProviderName(p)), ToLower(q))

\* every setting of the four date and year options
DateSettings ==
    [After : {<<>>, <<1>>, <<MaxTime>>}, Before : {<<>>, <<1>>, <<MaxTime>>},
     MinYear : {<<>>, <<2023>>, <<2026>>}, MaxYear : {<<>>, <<2022>>, <<2025>>}]

\* opts with its date and year options set as d has them
WithDates(opts, d) ==
    [opts EXCEPT !.After = d.After, !.Before = d.Before,
                 !.MinYear = d.MinYear, !.MaxYear = d.MaxYear]

\* the search result of a version of provider p
ResultOf(v, p) == [Category |-> p, Version |-> v.ID, Java |-> v.Java]

\* the versions of the list whose release time is the zero time
ZeroTimed(versions) == SelectSeq(versions, LAMBDA v : IsZero(v.ReleaseTime))

\* C30: a version whose release time is the zero time passes every date and year
\* predicate: whatever after, before, min_year and max_year are, GetVersionsFiltered and
\* Search keep it exactly when it meets the type, stability and Java options (and, in a
\* search, the query); and what the filter returns is the fetched list with some versions
\* left out, the others in their order
C30_ZeroTimePasses ==
    fRes.done =>
        LET both == MergeFilters(fOptA, fOptB)
            p == SearchedProvider
        IN  /\ ZeroTimed(fRes.both) = SelectSeq(ZeroTimed(fList), LAMBDA v : MeetsKind(v, both))
            /\ ZeroTimed(fRes.ab)
                  = SelectSeq(ZeroTimed(fList), LAMBDA v : MeetsKind(v, fOptA) /\ MeetsKind(v, fOptB))
            /\ \A d \in DateSettings :
                  ZeroTimed(FilterVersions(fList, WithDates(both, d))) = ZeroTimed(fRes.both)
            /\ \A i \in 1..Len(fList) :
                  (IsZero(fList[i].ReleaseTime) /\ MeetsKind(fList[i], both)
                        /\ MeetsQuery(fList[i], p, fRes.query))
                      => \E j \in 1..Len(fRes.search) : fRes.search[j] = ResultOf(fList[i], p)
            /\ IsSubList(fRes.both, fList)
            /\ IsSubList(fRes.ab, fList) /\ IsSubList(fRes.ba, fList)
            /\ IsSubList(fRes.search, [i \in 1..Len(fList) |-> ResultOf(fList[i], p)])

\* 1.21 of 2024 and 1.19 of unknown date filtered with min_year 2025 and before 1: the
\* dated version is dropped, the other kept, by the filter and by the search
C30_Witness ==
    /\ fRes.done
    /\ fOptA = [NoFilter EXCEPT !.MinYear = <<2025>>]
    /\ fOptB = [NoFilter EXCEPT !.Before = <<2>>]
    /\ Len(fList) = 2 /\ fList[1].ID = V_1_21 /\ fList[2].ID = V_1_19
    /\ fRes.both = <<fList[2]>>
    /\ fRes.query = <<>>
    /\ fRes.search = <<ResultOf(fList[2], SearchedProvider)>>

-----------------------------------------------------------------------------
(* models: the JSON encoding of Version, Build, Download and Change *)

\* a JSON object is the sequence of its <<key, value>> members, in field order

\* a member that omitempty drops when its value is the zero value
OmitEmpty(key, value, zero) == IF value = zero THEN <<>> ELSE << <<key, value>> >>

HasMember(obj, key) == \E i \in 1..Len(obj) : obj[i][1] = key

\* the value of a member, or the field's zero value when the member is absent
Member(obj, key, zero) ==
    IF HasMember(obj, key) THEN obj[CHOOSE i \in 1..Len(obj) : obj[i][1] = key][2] ELSE zero

\* time.Time as RFC 3339 text and back: the instant survives
FormatTime(t) == <<"rfc3339", t>>
ParseTime(j) == j[2]

MapSeq(q, Op(_)) == [i \in 1..Len(q) |-> Op(q[i])]

\* json.Marshal of a Download whose UpstreamURL had a name tag
MarshalDownloadTagged(d) ==
    << <<"name", d.Name>> >> \o OmitEmpty("sha256", d.SHA256, "")
        \o OmitEmpty("sha1", d.SHA1, "") \o OmitEmpty("size", d.Size, 0)
        \o << <<"upstream_url", d.UpstreamURL>> >>

\* json.Marshal of a Download: UpstreamURL is tagged "-" and is not written
MarshalDownload(d) ==
    << <<"name", d.Name>> >> \o OmitEmpty("sha256", d.SHA256, "")
        \o OmitEmpty("sha1", d.SHA1, "") \o OmitEmpty("size", d.Size, 0)

\* json.Unmarshal into a Download: no member is ever read into UpstreamURL
UnmarshalDownload(j) ==
    [Name |-> Member(j, "name", ""), SHA256 |-> Member(j, "sha256", ""),
     SHA1 |-> Member(j, "sha1", ""), Size |-> Member(j, "size", 0), UpstreamURL |-> ""]

MarshalChange(c) ==
    OmitEmpty("commit", c.Commit, "") \o OmitEmpty("summary", c.Summary, "")
        \o OmitEmpty("author", c.Author, "")

UnmarshalChange(j) ==
    [Commit |-> Member(j, "commit", ""), Summary |-> Member(j, "summary", ""),
     Author |-> Member(j, "author", "")]

MarshalVersion(v) ==
    << <<"id", v.ID>>, <<"type", v.Type>>, <<"release_time", FormatTime(v.ReleaseTime)>>,
       <<"stable", v.Stable>> >> \o OmitEmpty("java", v.Java, 0)

UnmarshalVersion(j) ==
    [ID |-> Member(j, "id", <<>>), Type |-> Member(j, "type", ""),
     ReleaseTime |-> ParseTime(Member(j, "release_time", FormatTime(0))),
     Stable |-> Member(j, "stable", FALSE), Java |-> Member(j, "java", 0)]

MarshalBuild(b) ==
    << <<"number", b.Number>>, <<"version", b.Version>> >>
        \o OmitEmpty("channel", b.Channel, "")
        \o << <<"stable", b.Stable>>, <<"created_at", FormatTime(b.CreatedAt)>> >>
        \o OmitEmpty("downloads", MapSeq(b.Downloads, MarshalDownload), <<>>)
        \o OmitEmpty("changes", MapSeq(b.Changes, MarshalChange), <<>>)
        \o OmitEmpty("java", b.Java, 0)

UnmarshalBuild(j) ==
    [Number |-> Member(j, "number", 0), Version |-> Member(j, "version", <<>>),
     Channel |-> Member(j, "channel", ""), Stable |-> Member(j, "stable", FALSE),
     CreatedAt |-> ParseTime(Member(j, "created_at", FormatTime(0))),
     Downloads |-> MapSeq(Member(j, "downloads", <<>>), UnmarshalDownload),
     Changes |-> MapSeq(Member(j, "changes", <<>>), UnmarshalChange),
     Java |-> Member(j, "java", 0)]

\* json.Marshal of what the service caches: a []Version or a []Build
Marshal(value) ==
    IF value.kind = "versions" THEN MapSeq(value.items, MarshalVersion)
    ELSE MapSeq(value.items, MarshalBuild)

\* json.Unmarshal into dest, whose type the caller picks by the key it reads
Unmarshal(data, kind) ==
    [kind |-> kind,
     items |-> IF kind = "versions" THEN MapSeq(data, UnmarshalVersion)
               ELSE MapSeq(data, UnmarshalBuild)]

-----------------------------------------------------------------------------
(* cache: MemoryCache *)

\* MemoryCache.ttl, in clock ticks
CacheTTL == 1

\* the last tick of the clock
MaxNow == 2

UrlPaperJar == "https://fill.papermc.io/v3/paper-1.21-5.jar"

Build5 ==
    [Number |-> 5, Version |-> V_1_21, Channel |-> "alpha", Stable |-> FALSE, CreatedAt |-> 4,
     Downloads |-> <<[Name |-> "paper-1.21-5.jar", SHA256 |-> "ab12", SHA1 |-> "", Size |-> 0,
                      UpstreamURL |-> UrlPaperJar]>>,
     Changes |-> <<[Commit |-> "c0ffee", Summary |-> "fix", Author |-> ""]>>, Java |-> 21]

\* a build with no download entries
Build4 ==
    [Number |-> 4, Version |-> V_1_21, Channel |-> "", Stable |-> TRUE, CreatedAt |-> 0,
     Downloads |-> <<>>, Changes |-> <<>>, Java |-> 21]

VersionLists ==
    {<<[ID |-> V_1_21, Type |-> VersionTypeRelease, ReleaseTime |-> 4, Stable |-> TRUE, Java |-> 21],
       [ID |-> V_1_20_pre1, Type |-> VersionTypeSnapshot, ReleaseTime |-> 0, Stable |-> FALSE,
        Java |-> 17]>>}

BuildLists == {<<Build5, Build4>>, <<Build4>>}

\* the values the service stores under each key
CacheValues(k) ==
    IF k = KeyVersions THEN {[kind |-> "versions", items |-> l] : l \in VersionLists}
    ELSE {[kind |-> "builds", items |-> l] : l \in BuildLists}

KindOf(k) == IF k = KeyVersions THEN "versions" ELSE "builds"

\* the expiry test of Get, one tick late
ExpiredLate(entry, t) == t > entry.expiresAt + 1

\* time.Now().After(entry.expiresAt)
Expired(entry, t) == t > entry.expiresAt

CacheInit == CacheIdle

\* MemoryCache.Set: marshal, then store with expiresAt = time.Now() + ttl under the lock
CacheSet(k, v) ==
    /\ cacheData' = [cacheData EXCEPT ![k] =
            [present |-> TRUE, data |-> Marshal(v), expiresAt |-> now + CacheTTL, orig |-> v]]
    /\ cFresh' = [cFresh EXCEPT ![k] = TRUE]
    /\ cLast' = [NoOp EXCEPT !.op = "set", !.key = k]
    /\ UNCHANGED <<now, cGet>>
    /\ UNCHANGED notCache

\* MemoryCache.Get up to RUnlock: the entry and ok are copied out under the read lock
CacheGetRead(g, k) ==
    /\ cGet[g].pc = "idle"
    /\ cGet' = [cGet EXCEPT ![g] =
            [pc |-> "read", key |-> k, entry |-> cacheData[k], immediate |-> cFresh[k]]]
    /\ cFresh' = [cFresh EXCEPT ![k] = FALSE]
    /\ UNCHANGED <<cacheData, now, cLast>>
    /\ UNCHANGED notCache

\* MemoryCache.Get after RUnlock: miss, or expired (delete under the lock, miss), or unmarshal
CacheGetFinish(g) ==
    /\ cGet[g].pc = "read"
    /\ LET k == cGet[g].key
           entry == cGet[g].entry
           res == [NoOp EXCEPT !.op = "get", !.key = k, !.orig = entry.orig,
                               !.immediate = cGet[g].immediate, !.found = entry.present,
                               !.late = (now > entry.expiresAt)]
       IN  IF ~entry.present
           THEN /\ cLast' = res
                /\ UNCHANGED <<cacheData, cFresh>>
           ELSE IF Expired(entry, now)
           THEN /\ cacheData' = [cacheData EXCEPT ![k] = NoEntry]
                /\ cFresh' = [cFresh EXCEPT ![k] = FALSE]
                /\ cLast' = res
           ELSE /\ cLast' = [res EXCEPT !.hit = TRUE, !.value = Unmarshal(entry.data, KindOf(k))]
                /\ UNCHANGED <<cacheData, cFresh>>
    /\ cGet' = [cGet EXCEPT ![g] = GetIdle]
    /\ UNCHANGED now
    /\ UNCHANGED notCache

\* MemoryCache.Delete
CacheDelete(k) ==
    /\ cacheData' = [cacheData EXCEPT ![k] = NoEntry]
    /\ cFresh' = [cFresh EXCEPT ![k] = FALSE]
    /\ cLast' = [NoOp EXCEPT !.op = "delete", !.key = k]
    /\ UNCHANGED <<now, cGet>>
    /\ UNCHANGED notCache

\* the clock advances
Tick ==
    /\ now < MaxNow
    /\ now' = now + 1
    /\ UNCHANGED <<cacheData, cGet, cFresh, cLast>>
    /\ UNCHANGED notCache

CacheNext ==
    \/ \E k \in CacheKeys : \E v \in CacheValues(k) : CacheSet(k, v)
    \/ \E g \in CacheProcs, k \in CacheKeys : CacheGetRead(g, k)
    \/ \E g \in CacheProcs : CacheGetFinish(g)
    \/ \E k \in CacheKeys : CacheDelete(k)
    \/ Tick

InitCache == CacheInit /\ CmpIdle /\ JavaIdle /\ FilterIdle /\ ProvIdle /\ SvcIdle /\ ListIdle
        /\ FanIdle /\ ManIdle

SpecCache == InitCache /\ [][CacheNext]_vars

\* C1: Set(k, v) followed immediately by Get(k), before the TTL elapses, returns a value
\* equal to v in every field.
C1_RoundTrip ==
    (cLast.op = "get" /\ cLast.immediate /\ ~cLast.late) =>
        (cLast.hit /\ cLast.value = cLast.orig)

\* C2: a Get that finds an entry past its expiry returns ErrCacheMiss and leaves the key
\* absent; a hit is never an entry past its expiry; an entry nobody has read or deleted
\* since its Set is still in the map, however late the clock (no background sweep).
C2_LazyExpiry ==
    /\ cLast.op = "get" =>
          /\ (cLast.found /\ cLast.late) => (~cLast.hit /\ ~cacheData[cLast.key].present)
          /\ cLast.hit => (cLast.found /\ ~cLast.late)
    /\ \A k \in CacheKeys : cFresh[k] => cacheData[k].present

\* a Get read an entry past its expiry, missed, and the key is gone
C2_Witness ==
    /\ cLast.op = "get" /\ cLast.found /\ cLast.late
    /\ ~cLast.hit
    /\ ~cacheData[cLast.key].present

\* an entry outlived its expiry in the map because nothing read it
C2_WitnessNoSweep ==
    \E k \in CacheKeys : cFresh[k] /\ cacheData[k].present /\ now > cacheData[k].expiresAt

\* a Get returns in this step
GetReturns == \E g \in CacheProcs : cGet[g].pc = "read" /\ cGet'[g] = GetIdle

\* the entry of k is in the map and not past its expiry
Live(k) == cacheData[k].present /\ ~Expired(cacheData[k], now)

\* C28: a Get never removes a live entry: when a Get that saw an expired entry of k comes
\* to its delete after a Set has stored a fresh entry of k, the fresh entry stays in the map
C28_GetKeepsLiveEntry ==
    [][GetReturns => \A k \in CacheKeys : Live(k) => cacheData'[k] = cacheData[k]]_vars

\* a Get holds the expired entry it copied out while the map holds a fresh entry of the
\* key that no Get has read yet
StaleDeletePending ==
    \E g \in CacheProcs :
        /\ cGet[g].pc = "read" /\ cGet[g].entry.present /\ Expired(cGet[g].entry, now)
        /\ Live(cGet[g].key) /\ cFresh[cGet[g].key]

-----------------------------------------------------------------------------
(* providers: builds of one version *)

\* the highest build number upstream
MaxBuild == 3

\* the "last 50 builds" cut of BungeeCordProvider.GetBuilds
JenkinsMaxBuilds == 50

Providers == {CategoryPaper, CategoryPurpur, CategoryBungeeCord, CategoryVanilla}

\* the version whose builds are asked for
ProvVersion == V_1_21

RECURSIVE Flat(_)
\* a string of the model as text
Flat(q) == IF q = <<>> THEN "" ELSE q[1] \o Flat(Tail(q))

\* what upstream knows of a build number: whether it exists, whether it is on the
\* stable channel (Fill) or ended SUCCESS (Purpur, Jenkins), and whether the request for
\* its detail is answered (for Jenkins: answered with a BungeeCord.jar artifact), and
\* whether it carries a server:default or proxy:default download (Fill)
AbsentBuild == [exists |-> FALSE, good |-> FALSE, ok |-> FALSE, dl |-> FALSE]
UpBuildStates ==
    {AbsentBuild} \cup {[exists |-> TRUE, good |-> g, ok |-> o, dl |-> TRUE] : g, o \in BOOLEAN}
        \cup {[exists |-> TRUE, good |-> g, ok |-> TRUE, dl |-> FALSE] : g \in BOOLEAN}

\* listOK: the request for the version (Fill builds, Purpur version, Jenkins job, Mojang
\* manifest and version detail) is answered
UpstreamStates == [listOK : BOOLEAN, builds : [1..MaxBuild -> UpBuildStates]]

RECURSIVE IdsDown(_, _)
\* the build numbers upstream has, newest first
IdsDown(up, n) ==
    IF n = 0 THEN <<>>
    ELSE (IF up.builds[n].exists THEN <<n>> ELSE <<>>) \o IdsDown(up, n - 1)

Reverse(q) == [i \in 1..Len(q) |-> q[Len(q) + 1 - i]]

\* the builds left in the order they were collected in
KeepOrder(builds) == builds

RECURSIVE InsertDesc(_, _)
InsertDesc(b, sorted) ==
    IF sorted = <<>> \/ b.Number > Head(sorted).Number THEN <<b>> \o sorted
    ELSE <<Head(sorted)>> \o InsertDesc(b, Tail(sorted))

RECURSIVE SortByNumberDesc(_)
\* sort.Slice(builds, Number descending)
SortByNumberDesc(builds) ==
    IF builds = <<>> THEN <<>>
    ELSE InsertDesc(Head(builds), SortByNumberDesc(Tail(builds)))

Failed == [err |-> TRUE, builds |-> <<>>, build |-> ZeroBuild]
ListOf(builds) == [err |-> FALSE, builds |-> builds, build |-> ZeroBuild]
OneOf(build) == [err |-> FALSE, builds |-> <<>>, build |-> build]

isStableChannel(channel) == channel \in {"STABLE", "RECOMMENDED"}

\* the models.Build the Fill PaperProvider makes of an upstream build
PaperBuild(up, version, n) ==
    LET channel == IF up.builds[n].good THEN "STABLE" ELSE "ALPHA"
    IN  [Number |-> n, Version |-> version, Channel |-> channel,
         Stable |-> isStableChannel(channel), CreatedAt |-> n,
         Downloads |-> IF ~up.builds[n].dl THEN <<>>
                      ELSE <<[Name |-> "paper-" \o Flat(version) \o "-" \o ToString(n) \o ".jar",
                              SHA256 |-> "ab12", SHA1 |-> "", Size |-> 0,
                              UpstreamURL |-> "https://fill-data.papermc.io/v1/objects/"
                                                  \o ToString(n)]>>,
         Changes |-> <<>>, Java |-> 0]

PaperGetBuilds(up, version) ==
    IF ~up.listOK THEN Failed
    ELSE LET ids == IdsDown(up, MaxBuild)
         IN  ListOf(SortByNumberDesc([i \in 1..Len(ids) |-> PaperBuild(up, version, ids[i])]))

PaperGetBuild(up, version, build) ==
    LET r == PaperGetBuilds(up, version)
    IN  IF r.err THEN Failed
        ELSE IF \E i \in 1..Len(r.builds) : r.builds[i].Number = build
        THEN OneOf(r.builds[CHOOSE i \in 1..Len(r.builds) : r.builds[i].Number = build])
        ELSE Failed

\* PaperProvider.GetLatestBuild (Fill): the first stable build, else builds[0]
PaperGetLatestBuild(up, version) ==
    LET r == PaperGetBuilds(up, version)
    IN  IF r.err \/ Len(r.builds) = 0 THEN Failed
        ELSE IF \E i \in 1..Len(r.builds) : r.builds[i].Stable
        THEN OneOf(r.builds[CHOOSE i \in 1..Len(r.builds) :
                        /\ r.builds[i].Stable
                        /\ \A j \in 1..(i - 1) : ~r.builds[j].Stable])
        ELSE OneOf(r.builds[1])

PurpurBuildURL(version, build) ==
    "https://api.purpurmc.org/v2/purpur/" \o Flat(version) \o "/" \o ToString(build)
        \o "/download"

PurpurDownloads(version, build) ==
    <<[Name |-> "purpur-" \o Flat(version) \o "-" \o ToString(build) \o ".jar",
       SHA256 |-> "", SHA1 |-> "", Size |-> 0, UpstreamURL |-> PurpurBuildURL(version, build)]>>

\* the request for one build's detail is answered
DetailOK(up, build) == build \in 1..MaxBuild /\ up.builds[build].exists /\ up.builds[build].ok

\* one goroutine of PurpurProvider.GetBuilds: stable stays true when the detail fetch fails
PurpurListedBuild(up, version, n) ==
    [Number |-> n, Version |-> version, Channel |-> "",
     Stable |-> IF DetailOK(up, n) THEN up.builds[n].good ELSE TRUE,
     CreatedAt |-> IF DetailOK(up, n) THEN n ELSE 0,
     Downloads |-> PurpurDownloads(version, n), Changes |-> <<>>, Java |-> 0]

PurpurGetBuilds(up, version) ==
    IF ~up.listOK THEN Failed
    ELSE LET all == Reverse(IdsDown(up, MaxBuild))
         IN  ListOf(SortByNumberDesc([i \in 1..Len(all) |-> PurpurListedBuild(up, version, all[i])]))

PurpurGetBuild(up, version, build) ==
    IF ~DetailOK(up, build) THEN Failed
    ELSE OneOf([Number |-> build, Version |-> version, Channel |-> "",
                Stable |-> up.builds[build].good, CreatedAt |-> build,
                Downloads |-> PurpurDownloads(version, build),
                Changes |-> <<[Commit |-> "c0ffee", Summary |-> "fix", Author |-> "dev"]>>,
                Java |-> 0])

\* Builds.Latest of the version response, scanned as a number (0 when there is none)
PurpurLatest(up) ==
    LET ids == IdsDown(up, MaxBuild) IN IF ids = <<>> THEN 0 ELSE ids[1]

\* PurpurProvider.GetLatestBuild: the build upstream names as latest
PurpurGetLatestBuild(up, version) ==
    IF ~up.listOK THEN Failed ELSE PurpurGetBuild(up, version, PurpurLatest(up))

BungeeBuild(up, version, n) ==
    [Number |-> n, Version |-> version, Channel |-> "", Stable |-> up.builds[n].good,
     CreatedAt |-> n,
     Downloads |-> <<[Name |-> "BungeeCord-" \o ToString(n) \o ".jar", SHA256 |-> "",
                      SHA1 |-> "", Size |-> 0,
                      UpstreamURL |-> "https://ci.md-5.net/job/BungeeCord/" \o ToString(n)
                                          \o "/artifact/bootstrap/target/BungeeCord.jar"]>>,
     Changes |-> <<>>, Java |-> 0]

Min(a, b) == IF a < b THEN a ELSE b

\* BungeeCordProvider.GetBuilds: the first 50 references, without those whose detail fails
BungeeGetBuilds(up, version) ==
    IF ~up.listOK THEN Failed
    ELSE LET refs == IdsDown(up, MaxBuild)
             first == SubSeq(refs, 1, Min(JenkinsMaxBuilds, Len(refs)))
             kept == SelectSeq(first, LAMBDA n : DetailOK(up, n))
         IN  ListOf(SortByNumberDesc([i \in 1..Len(kept) |-> BungeeBuild(up, version, kept[i])]))

BungeeGetBuild(up, version, build) ==
    IF ~DetailOK(up, build) THEN Failed ELSE OneOf(BungeeBuild(up, version, build))

\* lastSuccessfulBuild of the Jenkins job: the newest SUCCESS build, 0 when the field is null
LastSuccessfulBuild(up) ==
    LET good == SelectSeq(IdsDown(up, MaxBuild), LAMBDA n : up.builds[n].good)
    IN  IF good = <<>> THEN 0 ELSE good[1]

\* BungeeCordProvider.GetLatestBuild
BungeeGetLatestBuild(up, version) ==
    IF ~up.listOK THEN Failed ELSE BungeeGetBuild(up, version, LastSuccessfulBuild(up))

\* VanillaProvider.GetBuilds: one build, number 1, stable
VanillaGetBuilds(up, version) ==
    IF ~up.listOK THEN Failed
    ELSE ListOf(<<[Number |-> 1, Version |-> version, Channel |-> "", Stable |-> TRUE,
                   CreatedAt |-> 0,
                   Downloads |-> <<[Name |-> "server-" \o Flat(version) \o ".jar",
                                    SHA256 |-> "", SHA1 |-> "5ha1", Size |-> 7,
                                    UpstreamURL |-> "https://piston-data.mojang.com/v1/objects/server.jar"]>>,
                   Changes |-> <<>>, Java |-> 0]>>)

VanillaGetBuild(up, version, build) ==
    LET r == VanillaGetBuilds(up, version)
    IN  IF r.err \/ Len(r.builds) = 0 \/ build # 1 THEN Failed ELSE OneOf(r.builds[1])

VanillaGetLatestBuild(up, version) == VanillaGetBuild(up, version, 1)

\* Provider.GetBuilds, by provider
ProvGetBuilds(p, up, version) ==
    CASE p = CategoryPaper -> PaperGetBuilds(up, version)
      [] p = CategoryPurpur -> PurpurGetBuilds(up, version)
      [] p = CategoryBungeeCord -> BungeeGetBuilds(up, version)
      [] OTHER -> VanillaGetBuilds(up, version)

\* Provider.GetBuild, by provider
ProvGetBuild(p, up, version, build) ==
    CASE p = CategoryPaper -> PaperGetBuild(up, version, build)
      [] p = CategoryPurpur -> PurpurGetBuild(up, version, build)
      [] p = CategoryBungeeCord -> BungeeGetBuild(up, version, build)
      [] OTHER -> VanillaGetBuild(up, version, build)

\* Provider.GetLatestBuild, by provider
ProvGetLatestBuild(p, up, version) ==
    CASE p = CategoryPaper -> PaperGetLatestBuild(up, version)
      [] p = CategoryPurpur -> PurpurGetLatestBuild(up, version)
      [] p = CategoryBungeeCord -> BungeeGetLatestBuild(up, version)
      [] OTHER -> VanillaGetLatestBuild(up, version)

\* the error texts of doRequest: a 404 answer, and any other answer that is not 200
ErrNotFound == "not found"
ErrStatus == "unexpected status code: 500"

ErrBuildNotFound(version, build) ==
    "build " \o ToString(build) \o " not found for version " \o Flat(version)

\* the text of the error Provider.GetBuild returns when it returns one
BuildErrorText(p, up, version, build) ==
    CASE p = CategoryPaper ->
            IF ~up.listOK THEN ErrStatus ELSE ErrBuildNotFound(version, build)
      [] p = CategoryPurpur ->
            IF build \in 1..MaxBuild /\ up.builds[build].exists THEN ErrStatus ELSE ErrNotFound
      [] p = CategoryBungeeCord ->
            IF build \in 1..MaxBuild /\ up.builds[build].exists THEN ErrStatus ELSE ErrNotFound
      [] OTHER ->
            IF ~up.listOK THEN ErrStatus ELSE ErrBuildNotFound(version, build)

NoURL(msg) == [err |-> TRUE, url |-> "", msg |-> msg]

\* GetDownloadURL of the Fill PaperProvider, BungeeCordProvider and VanillaProvider
DownloadURLOfBuild(p, up, version, build) ==
    LET b == ProvGetBuild(p, up, version, build)
    IN  IF b.err THEN NoURL(BuildErrorText(p, up, version, build))
        ELSE IF Len(b.build.Downloads) = 0 THEN NoURL("no download available")
        ELSE [err |-> FALSE, url |-> b.build.Downloads[1].UpstreamURL, msg |-> ""]

\* PurpurProvider.GetDownloadURL: the address is formatted, no request is made
PurpurGetDownloadURL(version, build) ==
    [err |-> FALSE, url |-> PurpurBuildURL(version, build), msg |-> ""]

\* Provider.GetDownloadURL, by provider
ProvGetDownloadURL(p, up, version, build) ==
    IF p = CategoryPurpur THEN PurpurGetDownloadURL(version, build)
    ELSE DownloadURLOfBuild(p, up, version, build)

ErrNoBuilds(version) == "no builds found for version " \o Flat(version)

\* the text of the error Provider.GetLatestBuild returns when it returns one
LatestErrorText(p, up, version) ==
    CASE p = CategoryPaper -> IF ~up.listOK THEN ErrStatus ELSE ErrNoBuilds(version)
      [] p = CategoryPurpur ->
            IF ~up.listOK THEN ErrStatus
            ELSE BuildErrorText(p, up, version, PurpurLatest(up))
      [] p = CategoryBungeeCord ->
            IF ~up.listOK THEN ErrStatus
            ELSE BuildErrorText(p, up, version, LastSuccessfulBuild(up))
      [] OTHER -> BuildErrorText(p, up, version, 1)

FailedWith(msg) == [err |-> TRUE, builds |-> <<>>, build |-> ZeroBuild, msg |-> msg]

Called(op, p, arg, r) ==
    [op |-> op, provider |-> p, arg |-> arg, err |-> r.err, builds |-> r.builds,
     build |-> r.build, url |-> "", msg |-> ""]

ProvInit ==
    /\ upstream \in UpstreamStates
    /\ pLast = NoCall

CallGetBuilds(p) ==
    /\ pLast = NoCall
    /\ pLast' = Called("builds", p, 0, ProvGetBuilds(p, upstream, ProvVersion))
    /\ UNCHANGED upstream
    /\ UNCHANGED notProv

CallGetBuild(p, build) ==
    /\ pLast = NoCall
    /\ pLast' = Called("build", p, build, ProvGetBuild(p, upstream, ProvVersion, build))
    /\ UNCHANGED upstream
    /\ UNCHANGED notProv

CallGetLatestBuild(p) ==
    /\ pLast = NoCall
    /\ pLast' = Called("latest", p, 0, ProvGetLatestBuild(p, upstream, ProvVersion))
    /\ UNCHANGED upstream
    /\ UNCHANGED notProv

CallGetDownloadURL(p, build) ==
    /\ pLast = NoCall
    /\ \E r \in {ProvGetDownloadURL(p, upstream, ProvVersion, build)} :
          pLast' = [op |-> "url", provider |-> p, arg |-> build, err |-> r.err,
                    builds |-> <<>>, build |-> ZeroBuild, url |-> r.url, msg |-> r.msg]
    /\ UNCHANGED upstream
    /\ UNCHANGED notProv

\* the caller has its answer; the next call can be made
ProvReturn ==
    /\ pLast # NoCall
    /\ pLast' = NoCall
    /\ UNCHANGED upstream
    /\ UNCHANGED notProv

ProvNext ==
    \/ ProvReturn
    \/ \E p \in Providers : CallGetBuilds(p)
    \/ \E p \in Providers, build \in 0..MaxBuild : CallGetBuild(p, build)
    \/ \E p \in Providers : CallGetLatestBuild(p)
    \/ \E p \in Providers, build \in 0..MaxBuild : CallGetDownloadURL(p, build)

InitProv == ProvInit /\ CmpIdle /\ JavaIdle /\ FilterIdle /\ CacheIdle /\ SvcIdle /\ ListIdle
        /\ FanIdle /\ ManIdle

SpecProv == InitProv /\ [][ProvNext]_vars

\* the build the rule "first stable in list order, else the first" picks from a list
FirstStableElseFirst(builds) ==
    LET stable == SelectSeq(builds, LAMBDA b : b.Stable)
    IN  IF stable # <<>> THEN stable[1] ELSE builds[1]

\* every upstream request is answered
AllAnswered(up) == up.listOK /\ \A n \in 1..MaxBuild : up.builds[n].exists => up.builds[n].ok

\* C3: for every provider, getLatestBuild returns the first stable build of listBuilds
\* (descending build number) when there is one, and otherwise the first build overall
\* (stated for an upstream that answers every request).
C3_LatestIsFirstStable ==
    LET listing == ProvGetBuilds(pLast.provider, upstream, ProvVersion)
    IN  (pLast.op = "latest" /\ AllAnswered(upstream) /\ listing.builds # <<>>) =>
            /\ ~pLast.err
            /\ pLast.build.Number = FirstStableElseFirst(listing.builds).Number

\* C14: for every provider, resolveDownloadLocator fails when getBuild finds no such
\* build, fails with "no download available" when the build carries no download, and
\* otherwise returns the upstream address of the build's first download
C14_LocatorDelegates ==
    pLast.op = "url" =>
        LET b == ProvGetBuild(pLast.provider, upstream, ProvVersion, pLast.arg)
        IN  /\ b.err => pLast.err
            /\ (~b.err /\ Len(b.build.Downloads) = 0) =>
                  (pLast.err /\ pLast.msg = "no download available")
            /\ (~b.err /\ Len(b.build.Downloads) > 0) =>
                  (~pLast.err /\ pLast.url = b.build.Downloads[1].UpstreamURL)

\* C17: for every provider, listBuilds returns the builds in descending order of
\* Build.Number
C17_BuildsNewestFirst ==
    (pLast.op = "builds" /\ ~pLast.err) =>
        \A i, j \in 1..Len(pLast.builds) :
            i < j => pLast.builds[i].Number > pLast.builds[j].Number

\* Purpur, whose upstream lists the builds oldest first, answering with three builds
C17_Witness ==
    /\ pLast.op = "builds" /\ ~pLast.err
    /\ pLast.provider = CategoryPurpur
    /\ Len(pLast.builds) = 3
    /\ pLast.builds[1].Number = 3 /\ pLast.builds[3].Number = 1

-----------------------------------------------------------------------------
(* providers: version listings *)

\* the registered providers the service model carries
SvcProviders == {CategoryPaper, CategoryPurpur, CategoryVanilla}

V_24w01a == WeeklyId(24, 1, "a")

\* the versions the Fill project lists, and the Purpur project (oldest first)
PaperCatalogue == <<V_1_21, V_1_21_1>>
PurpurCatalogue == <<V_1_20, V_1_21>>

\* the Mojang manifest, newest first
VanillaManifest ==
    <<[id |-> V_24w01a, type |-> "snapshot", releaseTime |-> 4],
      [id |-> V_1_21, type |-> "release", releaseTime |-> 3],
      [id |-> V_1_20, type |-> "release", releaseTime |-> 1]>>

\* the builds of Paper 1.21.1: the listing fails, or holds one build, stable or not
NewerUp(fact) ==
    [listOK |-> fact # "fail",
     builds |-> [n \in 1..MaxBuild |->
                    IF n = 1 /\ fact # "fail"
                    THEN [exists |-> TRUE, good |-> fact = "stable", ok |-> TRUE, dl |-> TRUE]
                    ELSE AbsentBuild]]

\* what upstream answers for the builds of a version of a provider
UpFor(p, version) ==
    IF p = CategoryPaper /\ version = V_1_21_1 THEN NewerUp(svUp.newer) ELSE upstream

\* GetVersions failing on its first request, which upstream answers with a status that is
\* neither 200 nor 404
NoVersions == [err |-> TRUE, versions |-> <<>>, msg |-> ErrStatus]

\* isSnapshotVersion of the Fill provider
isSnapshotVersion(version) ==
    LET v == ToLower(version)
    IN  \/ Contains(v, Tail(ToLower(TagSnapshot))) \/ Contains(v, <<"-", "d", "e", "v">>)
        \/ Contains(v, TagBeta) \/ Contains(v, TagAlpha) \/ Contains(v, TagRc)
        \/ Contains(v, TagPre)

getVersionType(version) ==
    LET v == ToLower(version)
    IN  IF \/ Contains(v, Tail(ToLower(TagSnapshot))) \/ Contains(v, <<"-", "d", "e", "v">>)
           \/ Contains(v, TagPre) \/ Contains(v, TagRc)
        THEN VersionTypeSnapshot
        ELSE IF Contains(v, TagBeta) THEN VersionTypeBeta
        ELSE IF Contains(v, TagAlpha) THEN VersionTypeAlpha
        ELSE VersionTypeRelease

\* one enrichment goroutine of PaperProvider.GetVersions, with hasStable starting true
PaperEnrichedOptimistic(version) ==
    LET up == UpFor(CategoryPaper, version)
        ids == IdsDown(up, MaxBuild)
        fetched == up.listOK /\ Len(ids) > 0
    IN  [ID |-> version, Type |-> getVersionType(version),
         ReleaseTime |-> IF fetched THEN ids[1] ELSE 0,
         Stable |-> ~fetched \/ \E i \in 1..Len(ids) : up.builds[ids[i]].good,
         Java |-> 0]

\* one enrichment goroutine of PaperProvider.GetVersions and the merge of its result,
\* given what upstream answers for the version's builds: the time of builds[0], and
\* hasStable (false unless a fetched build is on a stable channel)
PaperEnrichedFrom(up, version) ==
    LET ids == IdsDown(up, MaxBuild)
        fetched == up.listOK /\ Len(ids) > 0
    IN  [ID |-> version, Type |-> getVersionType(version),
         ReleaseTime |-> IF fetched THEN ids[1] ELSE 0,
         Stable |-> fetched /\ \E i \in 1..Len(ids) :
                        isStableChannel(PaperBuild(up, version, ids[i]).Channel),
         Java |-> 0]

PaperEnriched(version) == PaperEnrichedFrom(UpFor(CategoryPaper, version), version)

RECURSIVE InsertNewest(_, _)
InsertNewest(v, sorted) ==
    IF sorted = <<>> \/ compareVersions(v.ID, Head(sorted).ID) > 0 THEN <<v>> \o sorted
    ELSE <<Head(sorted)>> \o InsertNewest(v, Tail(sorted))

RECURSIVE SortNewestFirst(_)
\* sort.Slice(versions, compareVersions(...) > 0)
SortNewestFirst(versions) ==
    IF versions = <<>> THEN <<>>
    ELSE InsertNewest(Head(versions), SortNewestFirst(Tail(versions)))

\* PaperProvider.GetVersions (Fill)
PaperGetVersions ==
    IF CategoryPaper \in svUp.fail THEN NoVersions
    ELSE [err |-> FALSE,
          versions |-> SortNewestFirst([i \in 1..Len(PaperCatalogue) |->
                                            PaperEnriched(PaperCatalogue[i])])]

\* one enrichment goroutine of PurpurProvider.GetVersions, given what upstream answers for
\* the version: the time of the latest build
PurpurEnrichedFrom(up, version) ==
    LET latest == PurpurLatest(up)
    IN  [ID |-> version, Type |-> VersionTypeRelease,
         ReleaseTime |-> IF up.listOK /\ latest # 0 /\ DetailOK(up, latest) THEN latest ELSE 0,
         Stable |-> TRUE, Java |-> 0]

PurpurEnriched(version) == PurpurEnrichedFrom(UpFor(CategoryPurpur, version), version)

\* the less function of PurpurProvider.GetVersions, on positions i and j of the slice
LessByReleaseTime(versions, i, j) ==
    IF ~IsZero(versions[i].ReleaseTime) /\ ~IsZero(versions[j].ReleaseTime)
    THEN versions[i].ReleaseTime > versions[j].ReleaseTime
    ELSE i < j

Swap(q, i, j) == [q EXCEPT ![i] = q[j], ![j] = q[i]]

RECURSIVE SinkByReleaseTime(_, _)
SinkByReleaseTime(versions, j) ==
    IF j > 1 /\ LessByReleaseTime(versions, j, j - 1)
    THEN SinkByReleaseTime(Swap(versions, j, j - 1), j - 1)
    ELSE versions

RECURSIVE SortFrom(_, _)
SortFrom(versions, i) ==
    IF i > Len(versions) THEN versions ELSE SortFrom(SinkByReleaseTime(versions, i), i + 1)

\* sort.Slice on a short slice: insertion sort with the less function above
SortByReleaseTime(versions) == SortFrom(versions, 2)

\* PurpurProvider.GetVersions
PurpurGetVersions ==
    IF CategoryPurpur \in svUp.fail THEN NoVersions
    ELSE LET newestFirst == Reverse(PurpurCatalogue)
         IN  [err |-> FALSE,
              versions |-> SortByReleaseTime([i \in 1..Len(newestFirst) |->
                                                 PurpurEnriched(newestFirst[i])])]

\* VanillaProvider.GetVersions
VanillaGetVersions ==
    IF CategoryVanilla \in svUp.fail THEN NoVersions
    ELSE [err |-> FALSE,
          versions |-> [i \in 1..Len(VanillaManifest) |->
              LET v == VanillaManifest[i]
              IN  [ID |-> v.id,
                   Type |-> CASE v.type = "snapshot" -> VersionTypeSnapshot
                              [] v.type = "old_beta" -> VersionTypeBeta
                              [] v.type = "old_alpha" -> VersionTypeAlpha
                              [] OTHER -> VersionTypeRelease,
                   ReleaseTime |-> v.releaseTime, Stable |-> v.type = "release", Java |-> 0]]]

\* Provider.GetVersions, by provider
ProvGetVersions(p) ==
    CASE p = CategoryPaper -> PaperGetVersions
      [] p = CategoryPurpur -> PurpurGetVersions
      [] OTHER -> VanillaGetVersions

-----------------------------------------------------------------------------
(* providers: version listings under every outcome of the enrichment requests *)

\* PaperProvider of the v2 API, which carries the paper category as the Fill one does
ListPaperV2 == "paper-v2"

ListProviders == {CategoryPaper, ListPaperV2, CategoryPurpur}

\* the version identifiers upstream lists, oldest first
ListCatalogue == <<V_1_20, V_1_20_rc1, V_1_21, V_1_21_1>>

ListIds == Range(ListCatalogue)

\* orders in which the range over versionInfoMap can hand out the identifiers
MapOrders ==
    {ListCatalogue, Reverse(ListCatalogue),
     <<ListCatalogue[3], ListCatalogue[1], ListCatalogue[4], ListCatalogue[2]>>}

\* what upstream answers for the builds of one listed version: no answer, no build, or one
\* build k (whose number stands for its time), on the stable channel or not, its detail
\* answered or not
ListUpstreams ==
    {[listOK |-> ok, builds |-> [n \in 1..MaxBuild |-> AbsentBuild]] : ok \in BOOLEAN}
        \cup {[listOK |-> TRUE,
               builds |-> [n \in 1..MaxBuild |->
                              IF n = k
                              THEN [exists |-> TRUE, good |-> go[1], ok |-> go[2], dl |-> TRUE]
                              ELSE AbsentBuild]] :
                  k \in 1..MaxBuild, go \in {<<TRUE, TRUE>>, <<TRUE, FALSE>>, <<FALSE, TRUE>>}}

\* isSnapshotVersion of the v2 provider
isSnapshotVersionV2(version) ==
    LET v == ToLower(version)
    IN  \/ Contains(v, Tail(ToLower(TagSnapshot))) \/ Contains(v, <<"-", "d", "e", "v">>)
        \/ Contains(v, TagBeta) \/ Contains(v, TagAlpha) \/ Contains(v, TagRc)

\* getVersionType of the v2 provider
getVersionTypeV2(version) ==
    LET v == ToLower(version)
    IN  IF Contains(v, Tail(ToLower(TagSnapshot))) \/ Contains(v, <<"-", "d", "e", "v">>)
        THEN VersionTypeSnapshot
        ELSE IF Contains(v, TagBeta) THEN VersionTypeBeta
        ELSE IF Contains(v, TagAlpha) THEN VersionTypeAlpha
        ELSE VersionTypeRelease

\* one enrichment goroutine of the v2 PaperProvider.GetVersions and the merge of its
\* result: hasStable starts from the type-derived flag and is replaced only when the builds
\* were fetched; the time is that of the last build of the answer
PaperV2Enriched(up, version) ==
    LET ids == IdsDown(up, MaxBuild)
        fetched == up.listOK /\ Len(ids) > 0
    IN  [ID |-> version, Type |-> getVersionTypeV2(version),
         ReleaseTime |-> IF fetched THEN ids[1] ELSE 0,
         Stable |-> IF ~fetched THEN ~isSnapshotVersionV2(version)
                    ELSE /\ ~isSnapshotVersionV2(version)
                         /\ \E i \in 1..Len(ids) : up.builds[ids[i]].good,
         Java |-> 0]

\* the collect loop keeping only the versions whose builds request was answered
MergeFetchedOnly(ups, versions) == SelectSeq(versions, LAMBDA v : ups[v.ID].listOK)

\* the collect loop: each result is written into the slot of its version, so every version
\* of the slice stays, its builds request answered or not
MergeResults(ups, versions) == versions

\* PaperProvider.GetVersions (Fill): the identifiers in map order, enriched, then sorted by
\* compareVersions
FillListVersions(ups, order) ==
    SortNewestFirst(MergeResults(ups, [i \in 1..Len(order) |-> PaperEnrichedFrom(ups[order[i]], order[i])]))

\* PaperProvider.GetVersions (v2): the upstream list reversed, enriched, then re-sorted
PaperV2ListVersions(ups) ==
    LET newestFirst == Reverse(ListCatalogue)
    IN  SortByReleaseTime(MergeResults(ups, [i \in 1..Len(newestFirst) |->
                                            PaperV2Enriched(ups[newestFirst[i]], newestFirst[i])]))

\* PurpurProvider.GetVersions: the upstream list reversed, enriched, then re-sorted
PurpurListVersions(ups) ==
    LET newestFirst == Reverse(ListCatalogue)
    IN  SortByReleaseTime(MergeResults(ups, [i \in 1..Len(newestFirst) |->
                                            PurpurEnrichedFrom(ups[newestFirst[i]], newestFirst[i])]))

ListInit ==
    /\ lvUp \in [ListIds -> ListUpstreams]
    /\ lvLast = NoListing

\* GetVersions of the Fill provider, the map handing out the identifiers in some order
ListFill(order) ==
    /\ ~lvLast.done
    /\ lvLast' = [done |-> TRUE, provider |-> CategoryPaper,
                  versions |-> FillListVersions(lvUp, order), premerge |-> order]
    /\ UNCHANGED lvUp
    /\ UNCHANGED notList

\* GetVersions of the v2 Paper provider
ListPaperV2Versions ==
    /\ ~lvLast.done
    /\ lvLast' = [done |-> TRUE, provider |-> ListPaperV2,
                  versions |-> PaperV2ListVersions(lvUp), premerge |-> Reverse(ListCatalogue)]
    /\ UNCHANGED lvUp
    /\ UNCHANGED notList

\* GetVersions of the Purpur provider
ListPurpur ==
    /\ ~lvLast.done
    /\ lvLast' = [done |-> TRUE, provider |-> CategoryPurpur,
                  versions |-> PurpurListVersions(lvUp), premerge |-> Reverse(ListCatalogue)]
    /\ UNCHANGED lvUp
    /\ UNCHANGED notList

\* the caller has the list; the next call can be made
ListReturn ==
    /\ lvLast.done
    /\ lvLast' = NoListing
    /\ UNCHANGED lvUp
    /\ UNCHANGED notList

ListNext ==
    \/ ListReturn
    \/ \E order \in MapOrders : ListFill(order)
    \/ ListPaperV2Versions
    \/ ListPurpur

InitList ==
    /\ ListInit /\ CmpIdle /\ JavaIdle /\ FilterIdle /\ CacheIdle /\ ProvIdle /\ SvcIdle
    /\ FanIdle /\ ManIdle

SpecList == InitList /\ [][ListNext]_vars

\* the versions of the last listing whose release time is unknown
UnknownTimes == {i \in 1..Len(lvLast.versions) : IsZero(lvLast.versions[i].ReleaseTime)}

C11_WitnessAllFail ==
    /\ lvLast.done /\ lvLast.provider = CategoryPaper
    /\ \A v \in ListIds : ~lvUp[v].listOK
    /\ Len(lvLast.versions) = 4

\* the position of an identifier in the list before the merge
PreMergePos(id) == CHOOSE k \in 1..Len(lvLast.premerge) : lvLast.premerge[k] = id

\* the version listed at position i was before the one at position j before the merge
KeptOrder(i, j) ==
    PreMergePos(lvLast.versions[i].ID) < PreMergePos(lvLast.versions[j].ID)

\* a version of unknown release time stood between the two before the merge
UnknownBetween(i, j) ==
    \E k \in UnknownTimes :
        /\ PreMergePos(lvLast.versions[i].ID) < PreMergePos(lvLast.versions[k].ID)
        /\ PreMergePos(lvLast.versions[k].ID) < PreMergePos(lvLast.versions[j].ID)

\* C20 as stated: in the re-sorted list of the v2 Paper and Purpur providers, two versions
\* of known release time stand newest first, and a pair with an unknown time keeps the
\* order it had before the merge
C20_NewestFirstByTime ==
    (lvLast.done /\ lvLast.provider \in {ListPaperV2, CategoryPurpur}) =>
        \A i, j \in 1..Len(lvLast.versions) :
            i < j =>
                IF i \in UnknownTimes \/ j \in UnknownTimes THEN KeptOrder(i, j)
                ELSE lvLast.versions[i].ReleaseTime >= lvLast.versions[j].ReleaseTime

\* what the re-sort does deliver for a list short enough for sort.Slice to sort by
\* insertion: a pair with an unknown release time keeps the order it had before the merge;
\* two versions of known time stand newest first, those of equal time in their earlier
\* order, unless a version of unknown time stood between them before the merge, in which
\* case they too keep their earlier order
ResortedBetweenUnknown ==
    (lvLast.done /\ lvLast.provider \in {ListPaperV2, CategoryPurpur}) =>
        \A i, j \in 1..Len(lvLast.versions) :
            i < j =>
                IF i \in UnknownTimes \/ j \in UnknownTimes THEN KeptOrder(i, j)
                ELSE IF UnknownBetween(i, j) \/ UnknownBetween(j, i) THEN KeptOrder(i, j)
                ELSE \/ lvLast.versions[i].ReleaseTime > lvLast.versions[j].ReleaseTime
                     \/ /\ lvLast.versions[i].ReleaseTime = lvLast.versions[j].ReleaseTime
                        /\ KeptOrder(i, j)

\* a v2 listing the re-sort changed: the last version before the merge is the newest by
\* time and is listed first
ResortMovedNewest ==
    /\ lvLast.done /\ lvLast.provider = ListPaperV2
    /\ UnknownTimes = {}
    /\ lvLast.versions[1].ID = lvLast.premerge[4]
    /\ lvLast.versions[1].ReleaseTime > lvLast.versions[2].ReleaseTime

\* a Purpur listing with an older version left before two newer ones by a version of
\* unknown time between them, the two newer ones exchanged by the re-sort
ResortBarrier ==
    /\ lvLast.done /\ lvLast.provider = CategoryPurpur
    /\ UnknownTimes = {2}
    /\ lvLast.versions[1].ReleaseTime < lvLast.versions[4].ReleaseTime
    /\ lvLast.versions[3].ReleaseTime > lvLast.versions[4].ReleaseTime
    /\ ~KeptOrder(3, 4)

\* the builds request of a listed version failed or brought no build (for Purpur: or the
\* detail of the latest build was not answered)
EnrichmentFailed(p, version) ==
    \/ ~lvUp[version].listOK
    \/ IdsDown(lvUp[version], MaxBuild) = <<>>
    \/ p = CategoryPurpur /\ ~DetailOK(lvUp[version], PurpurLatest(lvUp[version]))

\* the Stable flag a provider gives a version when it builds the list, before enrichment
DefaultStable(p, version) ==
    CASE p = CategoryPaper -> ~isSnapshotVersion(version)
      [] p = ListPaperV2 -> ~isSnapshotVersionV2(version)
      [] OTHER -> TRUE

\* C21: a listing succeeds whichever per-version requests fail; a version whose request
\* failed or brought no build has the zero release time and the Stable flag derived from
\* its identifier, and every other version has the time of its latest build
C21_DegradeKeepsDefaults ==
    lvLast.done =>
        \A i \in 1..Len(lvLast.versions) :
            IF EnrichmentFailed(lvLast.provider, lvLast.versions[i].ID)
            THEN /\ IsZero(lvLast.versions[i].ReleaseTime)
                 /\ lvLast.versions[i].Stable
                        = DefaultStable(lvLast.provider, lvLast.versions[i].ID)
            ELSE lvLast.versions[i].ReleaseTime
                    = IdsDown(lvUp[lvLast.versions[i].ID], MaxBuild)[1]

\* the same for the v2 Paper and Purpur providers alone
DegradeKeepsDefaultsElsewhere ==
    (lvLast.done /\ lvLast.provider # CategoryPaper) =>
        \A i \in 1..Len(lvLast.versions) :
            IF EnrichmentFailed(lvLast.provider, lvLast.versions[i].ID)
            THEN /\ IsZero(lvLast.versions[i].ReleaseTime)
                 /\ lvLast.versions[i].Stable
                        = DefaultStable(lvLast.provider, lvLast.versions[i].ID)
            ELSE lvLast.versions[i].ReleaseTime
                    = IdsDown(lvUp[lvLast.versions[i].ID], MaxBuild)[1]

\* a Fill listing in which the builds request of release 1.21 failed and 1.21 is listed as
\* not stable
FillFailedNotStable ==
    /\ lvLast.done /\ lvLast.provider = CategoryPaper
    /\ ~lvUp[V_1_21].listOK
    /\ \E i \in 1..Len(lvLast.versions) :
          lvLast.versions[i].ID = V_1_21 /\ ~lvLast.versions[i].Stable

-----------------------------------------------------------------------------
(* providers: the fan-out of per-item requests and the collect loop *)

\* the two fan-outs modelled: PaperProvider.GetVersions (Fill) over the listed versions, and
\* PurpurProvider.GetBuilds over Builds.All of one version
JobVersions == "versions"
JobBuilds == "builds"

\* the identifiers the Fill project lists
FanCatalogue == <<V_1_20, V_1_20_rc1, V_1_21>>

\* the orders in which the range over versionInfoMap hands them out
FanOrders == {FanCatalogue, Reverse(FanCatalogue)}

\* an upstream whose builds request fails
FailedUp == [listOK |-> FALSE, builds |-> [n \in 1..MaxBuild |-> AbsentBuild]]

\* an upstream holding the one build k
OneBuildUp(k, good) ==
    [listOK |-> TRUE,
     builds |-> [n \in 1..MaxBuild |->
                    IF n = k THEN [exists |-> TRUE, good |-> good, ok |-> TRUE, dl |-> TRUE]
                    ELSE AbsentBuild]]

\* what upstream answers for the builds of one listed version
FanUps == {FailedUp, OneBuildUp(1, TRUE), OneBuildUp(2, FALSE)}

\* what upstream knows of one build of the Purpur version
FanBuildStates ==
    {AbsentBuild, [exists |-> TRUE, good |-> TRUE, ok |-> TRUE, dl |-> TRUE],
     [exists |-> TRUE, good |-> FALSE, ok |-> FALSE, dl |-> TRUE]}

VersionsInputs ==
    {[job |-> JobVersions, items |-> order, ups |-> ups] :
        order \in FanOrders, ups \in [Range(FanCatalogue) -> FanUps]}

\* the goroutines the calling goroutine can start
FanTasks == 1..Len(FanCatalogue)

\* a Purpur version with as many builds as there are goroutines, or fewer
BuildsInputs ==
    {[job |-> JobBuilds, items |-> Reverse(IdsDown(up, MaxBuild)), ups |-> up] :
        up \in {u \in {[listOK |-> TRUE, builds |-> b] : b \in [1..MaxBuild -> FanBuildStates]} :
                  Len(IdsDown(u, MaxBuild)) <= Len(FanCatalogue)}}

FanLen == Len(fanIn.items)

\* the capacity of a channel that holds one result
ChanCapOne(n) == 1

\* make(chan versionBuildInfo, len(versions)), make(chan buildResult, len(Builds.All))
ChanCap(n) == n

\* the slice before the goroutines are started: the versions appended from the map with
\* their type-derived flags, or make([]models.Build, n)
InitialSlots(in) ==
    IF in.job = JobVersions
    THEN [i \in 1..Len(in.items) |->
             [ID |-> in.items[i], Type |-> getVersionType(in.items[i]), ReleaseTime |-> 0,
              Stable |-> ~isSnapshotVersion(in.items[i]), Java |-> 0]]
    ELSE [i \in 1..Len(in.items) |-> ZeroBuild]

\* what the request of goroutine i answers: a request that returns after the context is
\* cancelled returns the context's error
FetchFails(i) ==
    \/ fanCancelled
    \/ IF fanIn.job = JobVersions THEN ~fanIn.ups[fanIn.items[i]].listOK
       ELSE ~DetailOK(fanIn.ups, fanIn.items[i])

\* the builds of the Purpur version with the detail of build n unanswered
WithoutDetail(up, failed) ==
    [up EXCEPT !.builds = [n \in 1..MaxBuild |->
                              IF n \in failed THEN [up.builds[n] EXCEPT !.ok = FALSE]
                              ELSE up.builds[n]]]

\* the value goroutine i sends: the release time and hasStable of its version, or the
\* models.Build of its build number
TaskResult(i, failed) ==
    IF fanIn.job = JobVersions
    THEN PaperEnrichedFrom(IF failed THEN FailedUp ELSE fanIn.ups[fanIn.items[i]],
                           fanIn.items[i])
    ELSE PurpurListedBuild(IF failed THEN WithoutDetail(fanIn.ups, {fanIn.items[i]})
                           ELSE fanIn.ups,
                           ProvVersion, fanIn.items[i])

\* the slot the collect loop writes a result to, by the order of arrival
SlotByArrival(msg, got) == got + 1

\* the slot the collect loop writes a result to: versions[info.index], builds[result.index]
SlotOf(msg, got) == msg.index

\* the assignment of the collect loop
Store(job, slot, rec) ==
    IF job = JobVersions
    THEN [slot EXCEPT !.ReleaseTime = IF IsZero(rec.ReleaseTime) THEN @ ELSE rec.ReleaseTime,
                      !.Stable = rec.Stable]
    ELSE rec

\* the sort before the return
FanSorted(job, slots) ==
    IF job = JobVersions THEN SortNewestFirst(slots) ELSE SortByNumberDesc(slots)

FanInit ==
    /\ \/ fanIn \in VersionsInputs
       \/ fanIn \in BuildsInputs
    /\ fanCancelled = FALSE
    /\ fanTask = [i \in FanTasks |-> [pc |-> "unstarted", failed |-> FALSE, sent |-> 0]]
    /\ fanChan = <<>>
    /\ fanMain = [pc |-> IF FanLen = 0 THEN "collect" ELSE "spawn", i |-> 1, got |-> 0,
                  slots |-> InitialSlots(fanIn), ret |-> <<>>, arrived |-> <<>>]

\* go func(idx, ...) of the loop over the slice
FanSpawn ==
    /\ fanMain.pc = "spawn"
    /\ fanTask' = [fanTask EXCEPT ![fanMain.i].pc = "fetch"]
    /\ fanMain' = [fanMain EXCEPT !.i = @ + 1,
                                  !.pc = IF fanMain.i = FanLen THEN "collect" ELSE "spawn"]
    /\ UNCHANGED <<fanIn, fanCancelled, fanChan>>
    /\ UNCHANGED notFan

\* p.doRequest of goroutine i returns
FanFetchReturn(i) ==
    /\ fanTask[i].pc = "fetch"
    /\ fanTask' = [fanTask EXCEPT ![i].pc = "send", ![i].failed = FetchFails(i)]
    /\ UNCHANGED <<fanIn, fanCancelled, fanChan, fanMain>>
    /\ UNCHANGED notFan

\* results <- info: possible while the channel's buffer has room
FanSend(i) ==
    /\ fanTask[i].pc = "send"
    /\ Len(fanChan) < ChanCap(FanLen)
    /\ fanChan' = Append(fanChan, [index |-> i, rec |-> TaskResult(i, fanTask[i].failed)])
    /\ fanTask' = [fanTask EXCEPT ![i].pc = "done", ![i].sent = @ + 1]
    /\ UNCHANGED <<fanIn, fanCancelled, fanMain>>
    /\ UNCHANGED notFan

\* one round of the collect loop: info := <-results and the write into the slice
FanCollect ==
    /\ fanMain.pc = "collect"
    /\ fanMain.got < FanLen
    /\ fanChan # <<>>
    /\ \E k \in {SlotOf(Head(fanChan), fanMain.got)} :
          fanMain' = [fanMain EXCEPT !.got = @ + 1,
                                     !.slots[k] = Store(fanIn.job, @, Head(fanChan).rec),
                                     !.arrived = Append(@, Head(fanChan).index)]
    /\ fanChan' = Tail(fanChan)
    /\ UNCHANGED <<fanIn, fanCancelled, fanTask>>
    /\ UNCHANGED notFan

\* the collect loop has run len(versions) times: sort and return
FanReturn ==
    /\ fanMain.pc = "collect"
    /\ fanMain.got = FanLen
    /\ fanMain' = [fanMain EXCEPT !.pc = "returned", !.ret = FanSorted(fanIn.job, fanMain.slots)]
    /\ UNCHANGED <<fanIn, fanCancelled, fanTask, fanChan>>
    /\ UNCHANGED notFan

\* the inbound request is cancelled
FanCancel ==
    /\ ~fanCancelled
    /\ fanMain.pc # "returned"
    /\ fanCancelled' = TRUE
    /\ UNCHANGED <<fanIn, fanTask, fanChan, fanMain>>
    /\ UNCHANGED notFan

FanNext ==
    \/ FanSpawn
    \/ \E i \in FanTasks : FanFetchReturn(i)
    \/ \E i \in FanTasks : FanSend(i)
    \/ FanCollect
    \/ FanReturn
    \/ FanCancel

InitFan ==
    /\ FanInit /\ CmpIdle /\ JavaIdle /\ FilterIdle /\ CacheIdle /\ ProvIdle /\ SvcIdle
    /\ ListIdle /\ ManIdle

\* the steps that need no answer from the network
FanProgress ==
    \/ FanSpawn
    \/ \E i \in FanTasks : FanSend(i)
    \/ FanCollect
    \/ FanReturn

\* while some goroutine can run, one does; a request is not bound to return, and nothing
\* obliges the caller to cancel
FanFair == WF_vars(FanProgress)

SpecFan == InitFan /\ [][FanNext]_vars /\ FanFair

\* the goroutines whose request failed
FailedTasks == {i \in 1..FanLen : fanTask[i].failed}

\* exactly the goroutines of the slice's indices are started, none sends twice, none is at
\* its send with the channel full, and the caller returns only with len results collected
FanSafe ==
    /\ fanMain.pc # "spawn" =>
          {i \in FanTasks : fanTask[i].pc # "unstarted"} = 1..FanLen
    /\ \A i \in FanTasks :
          /\ fanTask[i].sent <= 1
          /\ fanTask[i].pc = "done" => fanTask[i].sent = 1
          /\ fanTask[i].pc = "send" => Len(fanChan) < ChanCap(FanLen)
    /\ fanMain.pc = "returned" =>
          /\ fanMain.got = FanLen
          /\ \A i \in 1..FanLen : fanTask[i].pc = "done"
          /\ fanChan = <<>>

AllFetchesReturned == \A i \in 1..FanLen : fanTask[i].pc \in {"send", "done"}

\* C22: n goroutines are started for a slice of n, each sends one result whether its
\* request succeeded, failed or was cancelled, no send finds the channel full, the caller
\* returns after exactly n receipts; and once every request has returned the call
\* returns with no goroutine left at its send
C22_FanInBarrier ==
    /\ []FanSafe
    /\ AllFetchesReturned ~> (fanMain.pc = "returned")

\* a call over three versions returned after its context was cancelled, with one request
\* answered before the cancellation and the others failed by it
C22_Witness ==
    /\ fanMain.pc = "returned" /\ fanIn.job = JobVersions
    /\ fanCancelled
    /\ Cardinality(FailedTasks) = 2
    /\ \A i \in 1..FanLen : fanIn.ups[fanIn.items[i]].listOK
    /\ \A i \in 1..FanLen : fanTask[i].sent = 1

\* what the call returns when the requests of FailedTasks fail, worked out one item after
\* the other in slice order
ExpectedList ==
    IF fanIn.job = JobVersions
    THEN FillListVersions([v \in Range(FanCatalogue) |->
                              IF \E i \in FailedTasks : fanIn.items[i] = v THEN FailedUp
                              ELSE fanIn.ups[v]],
                          fanIn.items)
    ELSE PurpurGetBuilds(WithoutDetail(fanIn.ups, {fanIn.items[i] : i \in FailedTasks}),
                         ProvVersion).builds

\* C23: the list a call returns is the one fixed by what upstream holds and by which
\* requests failed, whatever the order in which the results arrived
C23_CompletionOrderFree ==
    fanMain.pc = "returned" => fanMain.ret = ExpectedList

\* a Purpur builds call whose three results arrived newest index first, one of them failed
C23_Witness ==
    /\ fanMain.pc = "returned" /\ fanIn.job = JobBuilds
    /\ fanMain.arrived = <<3, 2, 1>>
    /\ Cardinality(FailedTasks) = 1

\* a versions call whose results arrived out of slice order, some requests failed
C23_WitnessVersions ==
    /\ fanMain.pc = "returned" /\ fanIn.job = JobVersions
    /\ fanMain.arrived = <<2, 3, 1>>
    /\ Cardinality(FailedTasks) = 1

-----------------------------------------------------------------------------
(* providers: VanillaProvider.fetchManifest under concurrent requests *)

\* the requests that call the provider at once
ManProcs == {1, 2}

\* the five minutes a fetched manifest is kept, in ticks of the clock
ManifestTTL == 1

\* the last generation of the manifest Mojang publishes
MaxGen == 2

ManInit ==
    /\ manManifest = 0
    /\ manCacheTime = 0
    /\ manNow = 0
    /\ manUp = 1
    /\ manProc = [g \in ManProcs |-> [pc |-> "idle", fetched |-> 0, got |-> 0, err |-> FALSE]]

\* another request is about to write p.cacheTime
WritingTime(g) == \E h \in ManProcs \ {g} : manProc[h].pc = "store2"

\* p.manifest != nil && time.Since(p.cacheTime) < 5*time.Minute
ManifestFresh == manManifest # 0 /\ manNow - manCacheTime < ManifestTTL

\* a request enters GetVersions and with it fetchManifest
ManCall(g) ==
    /\ manProc[g].pc = "idle"
    /\ manProc' = [manProc EXCEPT ![g] = [pc |-> "check", fetched |-> 0, got |-> 0,
                                           err |-> FALSE]]
    /\ UNCHANGED <<manManifest, manCacheTime, manNow, manUp>>
    /\ UNCHANGED notMan

\* the test at the head of fetchManifest; p.cacheTime read while another request writes
\* it is a data race, and the test can come out either way
ManCheck(g) ==
    /\ manProc[g].pc = "check"
    /\ \E fresh \in IF manManifest # 0 /\ WritingTime(g) THEN BOOLEAN ELSE {ManifestFresh} :
          manProc' = [manProc EXCEPT ![g].pc = IF fresh THEN "use" ELSE "fetch"]
    /\ UNCHANGED <<manManifest, manCacheTime, manNow, manUp>>
    /\ UNCHANGED notMan

\* p.client.Do and the decoding: the manifest as published now, or an error returned
ManFetch(g, ok) ==
    /\ manProc[g].pc = "fetch"
    /\ manProc' = [manProc EXCEPT ![g] = IF ok THEN [@ EXCEPT !.pc = "store1", !.fetched = manUp]
                                         ELSE [@ EXCEPT !.pc = "idle", !.err = TRUE]]
    /\ UNCHANGED <<manManifest, manCacheTime, manNow, manUp>>
    /\ UNCHANGED notMan

\* p.manifest = &manifest
ManStoreManifest(g) ==
    /\ manProc[g].pc = "store1"
    /\ manManifest' = manProc[g].fetched
    /\ manProc' = [manProc EXCEPT ![g].pc = "store2"]
    /\ UNCHANGED <<manCacheTime, manNow, manUp>>
    /\ UNCHANGED notMan

\* p.cacheTime = time.Now()
ManStoreTime(g) ==
    /\ manProc[g].pc = "store2"
    /\ manCacheTime' = manNow
    /\ manProc' = [manProc EXCEPT ![g].pc = "use"]
    /\ UNCHANGED <<manManifest, manNow, manUp>>
    /\ UNCHANGED notMan

\* GetVersions ranging over p.manifest.Versions
ManUse(g) ==
    /\ manProc[g].pc = "use"
    /\ manProc' = [manProc EXCEPT ![g].pc = "idle", ![g].got = manManifest]
    /\ UNCHANGED <<manManifest, manCacheTime, manNow, manUp>>
    /\ UNCHANGED notMan

ManTick ==
    /\ manNow < MaxNow
    /\ manNow' = manNow + 1
    /\ UNCHANGED <<manManifest, manCacheTime, manUp, manProc>>
    /\ UNCHANGED notMan

\* Mojang publishes a new manifest
ManPublish ==
    /\ manUp < MaxGen
    /\ manUp' = manUp + 1
    /\ UNCHANGED <<manManifest, manCacheTime, manNow, manProc>>
    /\ UNCHANGED notMan

ManNext ==
    \/ \E g \in ManProcs : ManCall(g)
    \/ \E g \in ManProcs : ManCheck(g)
    \/ \E g \in ManProcs, ok \in BOOLEAN : ManFetch(g, ok)
    \/ \E g \in ManProcs : ManStoreManifest(g)
    \/ \E g \in ManProcs : ManStoreTime(g)
    \/ \E g \in ManProcs : ManUse(g)
    \/ ManTick
    \/ ManPublish

InitMan ==
    /\ ManInit /\ CmpIdle /\ JavaIdle /\ FilterIdle /\ CacheIdle /\ ProvIdle /\ SvcIdle
    /\ ListIdle /\ FanIdle

SpecMan == InitMan /\ [][ManNext]_vars

\* between its test and its second store a request is refreshing the manifest
Refreshing(g) == manProc[g].pc \in {"fetch", "store1", "store2"}

\* C24: no two requests refresh the manifest at once, and no request is about to read
\* the manifest or its timestamp while another is about to write it
C24_RefreshGuarded ==
    \A g, h \in ManProcs :
        g # h =>
            /\ ~(Refreshing(g) /\ Refreshing(h))
            /\ ~(manProc[g].pc \in {"store1", "store2"} /\ manProc[h].pc \in {"check", "use"})

\* the manifest held is never older than one a request has already stored
ManifestNeverRegresses == [][manManifest' >= manManifest]_vars

-----------------------------------------------------------------------------
(* service: JarsService over the registry and the cache *)

CategorySpigot == "spigot"

\* the rule file the service runs with
SvcConfig ==
    [Servers |-> RenderTable(T_example), Proxies |-> RenderTable(T_proxies), Default |-> 17]

\* the versions whose builds are asked for
SvcVersions == {V_1_21, V_1_21_1}

\* the version identifiers the providers list
SvcListed == {V_1_20, V_1_21, V_1_21_1, V_24w01a}

\* the rule file after an edit: every version from 1.0 on needs Java 11
SvcConfigEdited ==
    [Servers |-> RenderTable(T_unsorted), Proxies |-> RenderTable(T_empty), Default |-> 9]

SvcConfigs == {SvcConfig, SvcConfigEdited}

\* java.GetRequirement with the rule file loaded, tabulated over the listed versions
RequirementOf ==
    [cfg \in SvcConfigs |->
        [c \in SvcProviders |-> [v \in SvcListed |-> GetRequirement(cfg, FALSE, v, c)]]]

\* java.GetRequirement in the running process, whose loadConfig has returned config
JavaFor(version, category) == RequirementOf[config][category][version]

VersionsKey(categoryID) == "versions:" \o categoryID
BuildsKey(categoryID, version) == "builds:" \o categoryID \o ":" \o Flat(version)

\* the keys the service can ask the cache for, those of the unregistered category included
SvcKeys ==
    {VersionsKey(p) : p \in SvcProviders \cup {CategorySpigot}}
        \cup {BuildsKey(p, v) : p \in SvcProviders \cup {CategorySpigot}, v \in SvcVersions}

NoData == [present |-> FALSE, data |-> <<>>]

\* ErrCacheMiss
ErrCacheMiss == "cache miss"

\* s.cache.Get: the entry of the key, or ErrCacheMiss
CacheGet(cache, key) ==
    IF key \in DOMAIN cache /\ cache[key].present
    THEN [err |-> "", data |-> cache[key].data]
    ELSE [err |-> ErrCacheMiss, data |-> <<>>]

\* s.cache.Get returns no error
CacheHit(cache, key) == CacheGet(cache, key).err = ""

\* a Set that stores nothing
CacheKeep(cache, key, value) == cache

\* s.cache.Set; the error of Set is dropped
CachePut(cache, key, value) ==
    IF key \in DOMAIN cache
    THEN [cache EXCEPT ![key] = [present |-> TRUE, data |-> Marshal(value)]]
    ELSE cache

\* registry.Get
Registered(categoryID) == categoryID \in SvcProviders

\* the error of registry.Get
ErrProvider(categoryID) == "provider " \o categoryID \o " not found"

\* the loop of GetVersions that sets the Java requirement of every version
WithJava(versions, categoryID) ==
    [i \in 1..Len(versions) |-> [versions[i] EXCEPT !.Java = JavaFor(versions[i].ID, categoryID)]]

VersionsFailed(cache, fetched, msg) ==
    [err |-> TRUE, fetchFailed |-> fetched, versions |-> <<>>, cache |-> cache, msg |-> msg,
     hit |-> FALSE]

\* JarsService.GetVersions when cache.Get returns no error
VersionsCached(cache, categoryID) ==
    [err |-> FALSE, fetchFailed |-> FALSE,
     versions |-> Unmarshal(CacheGet(cache, VersionsKey(categoryID)).data, "versions").items,
     cache |-> cache, msg |-> "", hit |-> TRUE]

\* the rest of GetVersions, storing an empty list when the provider fails
VersionsFetchedStoringFailure(cache, categoryID) ==
    IF ~Registered(categoryID) THEN VersionsFailed(cache, FALSE, ErrProvider(categoryID))
    ELSE Bind(ProvGetVersions(categoryID), LAMBDA r :
            IF r.err
            THEN VersionsFailed(CachePut(cache, VersionsKey(categoryID),
                                         [kind |-> "versions", items |-> <<>>]),
                                TRUE, r.msg)
            ELSE Bind(WithJava(r.versions, categoryID), LAMBDA versions :
                    [err |-> FALSE, fetchFailed |-> FALSE, versions |-> versions,
                     cache |-> CachePut(cache, VersionsKey(categoryID),
                                        [kind |-> "versions", items |-> versions]),
                     msg |-> "", hit |-> FALSE]))

\* the rest of JarsService.GetVersions after a cache.Get that returned an error
VersionsFetched(cache, categoryID) ==
    IF ~Registered(categoryID) THEN VersionsFailed(cache, FALSE, ErrProvider(categoryID))
    ELSE Bind(ProvGetVersions(categoryID), LAMBDA r :
            IF r.err THEN VersionsFailed(cache, TRUE, r.msg)
            ELSE Bind(WithJava(r.versions, categoryID), LAMBDA versions :
                    [err |-> FALSE, fetchFailed |-> FALSE, versions |-> versions,
                     cache |-> CachePut(cache, VersionsKey(categoryID),
                                        [kind |-> "versions", items |-> versions]),
                     msg |-> "", hit |-> FALSE]))

\* JarsService.GetVersions handing the error of cache.Get to its caller
SvcGetVersionsSurfacing(cache, categoryID) ==
    IF CacheHit(cache, VersionsKey(categoryID)) THEN VersionsCached(cache, categoryID)
    ELSE VersionsFailed(cache, FALSE, CacheGet(cache, VersionsKey(categoryID)).err)

\* JarsService.GetVersions
SvcGetVersions(cache, categoryID) ==
    IF CacheHit(cache, VersionsKey(categoryID)) THEN VersionsCached(cache, categoryID)
    ELSE VersionsFetched(cache, categoryID)

BuildsFailed(cache, msg) ==
    [err |-> TRUE, builds |-> <<>>, cache |-> cache, msg |-> msg, hit |-> FALSE]

\* JarsService.GetBuilds
SvcGetBuilds(cache, categoryID, version) ==
    IF CacheHit(cache, BuildsKey(categoryID, version))
    THEN [err |-> FALSE,
          builds |-> Unmarshal(CacheGet(cache, BuildsKey(categoryID, version)).data,
                               "builds").items,
          cache |-> cache, msg |-> "", hit |-> TRUE]
    ELSE IF ~Registered(categoryID) THEN BuildsFailed(cache, ErrProvider(categoryID))
    ELSE Bind(ProvGetBuilds(categoryID, UpFor(categoryID, version), version), LAMBDA r :
            IF r.err THEN BuildsFailed(cache, ErrStatus)
            ELSE Bind([i \in 1..Len(r.builds) |->
                          [r.builds[i] EXCEPT !.Java = JavaFor(version, categoryID)]],
                      LAMBDA builds :
                        [err |-> FALSE, builds |-> builds,
                         cache |-> CachePut(cache, BuildsKey(categoryID, version),
                                            [kind |-> "builds", items |-> builds]),
                         msg |-> "", hit |-> FALSE]))

\* the loop body of GetBuildsFiltered
BuildPasses(b, opts) ==
    /\ ~(opts.StableOnly /\ ~b.Stable)
    /\ ~(opts.After # <<>> /\ ~IsZero(b.CreatedAt) /\ b.CreatedAt < opts.After[1])
    /\ ~(opts.Before # <<>> /\ ~IsZero(b.CreatedAt) /\ b.CreatedAt > opts.Before[1])

\* the build a provider returned, with its Java requirement set, or its error with text msg
BuildWithJava(r, version, categoryID, msg) ==
    IF r.err THEN FailedWith(msg)
    ELSE OneOf([r.build EXCEPT !.Java = JavaFor(version, categoryID)])

\* JarsService.GetBuild
SvcGetBuild(categoryID, version, build) ==
    IF ~Registered(categoryID) THEN FailedWith(ErrProvider(categoryID))
    ELSE Bind(ProvGetBuild(categoryID, UpFor(categoryID, version), version, build),
              LAMBDA r : BuildWithJava(r, version, categoryID,
                             IF r.err
                             THEN BuildErrorText(categoryID, UpFor(categoryID, version),
                                                 version, build)
                             ELSE ""))

\* JarsService.GetLatestBuild
SvcGetLatestBuild(categoryID, version) ==
    IF ~Registered(categoryID) THEN FailedWith(ErrProvider(categoryID))
    ELSE Bind(ProvGetLatestBuild(categoryID, UpFor(categoryID, version), version),
              LAMBDA r : BuildWithJava(r, version, categoryID,
                             IF r.err
                             THEN LatestErrorText(categoryID, UpFor(categoryID, version),
                                                  version)
                             ELSE ""))

\* the first version flagged stable, else the first version
FirstStableVersion(versions) ==
    IF \E i \in 1..Len(versions) : versions[i].Stable
    THEN versions[CHOOSE i \in 1..Len(versions) :
                      versions[i].Stable /\ \A j \in 1..(i - 1) : ~versions[j].Stable]
    ELSE versions[1]

\* JarsService.GetLatestStableVersion: the first version of the list flagged stable, else
\* the first version; an error when the list cannot be had or is empty
GetLatestStableVersion(cache, categoryID) ==
    Bind(SvcGetVersions(cache, categoryID), LAMBDA r :
        IF r.err THEN [err |-> TRUE, id |-> <<>>, cache |-> r.cache, msg |-> r.msg]
        ELSE IF r.versions = <<>>
        THEN [err |-> TRUE, id |-> <<>>, cache |-> r.cache, msg |-> "no versions found"]
        ELSE [err |-> FALSE, id |-> FirstStableVersion(r.versions).ID, cache |-> r.cache,
              msg |-> ""])

\* Handler.resolveVersion
resolveVersion(cache, categoryID, version) ==
    IF version = V_latest THEN GetLatestStableVersion(cache, categoryID)
    ELSE [err |-> FALSE, id |-> version, cache |-> cache, msg |-> ""]

-----------------------------------------------------------------------------
(* handlers: requests and their JSON responses *)

\* c.JSON(status, APIResponse{Success: true, Data: data})
OkBody(data) == << <<"success", TRUE>>, <<"data", data>> >>

\* c.JSON(status, APIResponse{Success: false, Error: message})
ErrorBody(message) == << <<"success", FALSE>> >> \o OmitEmpty("error", message, "")

MarshalVersionsResponse(categoryID, versions) ==
    << <<"category", categoryID>>, <<"versions", MapSeq(versions, MarshalVersion)>> >>

\* the pointer to the first stable build of the list, nil when there is none
LatestStable(builds) ==
    IF \E i \in 1..Len(builds) : builds[i].Stable
    THEN <<builds[CHOOSE i \in 1..Len(builds) :
                      builds[i].Stable /\ \A j \in 1..(i - 1) : ~builds[j].Stable]>>
    ELSE <<>>

\* BuildsResponse; LatestStable is left out when nil
MarshalBuildsResponse(categoryID, version, builds) ==
    << <<"category", categoryID>>, <<"version", version>>,
       <<"builds", MapSeq(builds, MarshalBuild)>> >>
        \o [i \in 1..Len(LatestStable(builds)) |->
               <<"latest_stable", MarshalBuild(LatestStable(builds)[i])>>]

MarshalSearchResult(r) ==
    << <<"category", r.Category>>, <<"version", r.Version>> >> \o OmitEmpty("java", r.Java, 0)

Responded(endpoint, categoryID, version, build, rv, status, body) ==
    [NoRequest EXCEPT !.endpoint = endpoint, !.category = categoryID, !.requested = version,
                      !.build = build, !.resolved = rv.id, !.resolveErr = rv.err,
                      !.status = status, !.body = body]

NoResolve == [err |-> FALSE, id |-> <<>>]

\* Handler.GetVersions
HandleGetVersions(categoryID, opts) ==
    /\ svLast = NoRequest
    /\ \E r \in {SvcGetVersions(svCache, categoryID)} :
          /\ svCache' = r.cache
          /\ svLast' =
                [(IF r.err
                  THEN Responded("versions", categoryID, <<>>, <<>>, NoResolve, 404,
                                 ErrorBody(r.msg))
                  ELSE Responded("versions", categoryID, <<>>, <<>>, NoResolve, 200,
                                 OkBody(MarshalVersionsResponse(
                                            categoryID, FilterVersions(r.versions, opts)))))
                 EXCEPT !.opts = opts, !.hit = r.hit]
    /\ UNCHANGED <<svUp, upstream, pLast>>
    /\ UNCHANGED notSvc

\* the rest of Handler.GetBuilds once the version is resolved
BuildsResponded(categoryID, version, rv, r, opts) ==
    IF r.err
    THEN Responded("builds", categoryID, version, <<>>, rv, 404, ErrorBody(r.msg))
    ELSE Responded("builds", categoryID, version, <<>>, rv, 200,
                   OkBody(MarshalBuildsResponse(
                              categoryID, rv.id,
                              SelectSeq(r.builds, LAMBDA b : BuildPasses(b, opts)))))

\* Handler.GetBuilds
HandleGetBuilds(categoryID, version, stableOnly) ==
    /\ svLast = NoRequest
    /\ \E rv \in {resolveVersion(svCache, categoryID, version)},
          opts \in {[NoFilter EXCEPT !.StableOnly = stableOnly]} :
          IF rv.err
          THEN /\ svCache' = rv.cache
               /\ svLast' = [Responded("builds", categoryID, version, <<>>, rv, 404,
                                       ErrorBody(rv.msg))
                             EXCEPT !.opts = opts]
          ELSE \E r \in {SvcGetBuilds(rv.cache, categoryID, rv.id)} :
                  /\ svCache' = r.cache
                  /\ svLast' = [BuildsResponded(categoryID, version, rv, r, opts)
                                EXCEPT !.opts = opts, !.hit = r.hit]
    /\ UNCHANGED <<svUp, upstream, pLast>>
    /\ UNCHANGED notSvc

\* the build a GetBuild or GetDownload request names: "latest", a number, or neither
RequestedBuild(categoryID, version, buildStr) ==
    IF buildStr = V_latest THEN SvcGetLatestBuild(categoryID, version)
    ELSE IF ~Atoi(buildStr).ok THEN Failed
    ELSE SvcGetBuild(categoryID, version, Atoi(buildStr).val)

\* Handler.GetBuild from the resolved version rv on, r being the build the service returns
BuildResponded(categoryID, version, buildStr, rv, r) ==
    IF rv.err
    THEN Responded("build", categoryID, version, buildStr, rv, 404, ErrorBody(rv.msg))
    ELSE IF buildStr # V_latest /\ ~Atoi(buildStr).ok
    THEN Responded("build", categoryID, version, buildStr, rv, 400,
                   ErrorBody("invalid build number"))
    ELSE IF r.err
    THEN Responded("build", categoryID, version, buildStr, rv, 404, ErrorBody(r.msg))
    ELSE Responded("build", categoryID, version, buildStr, rv, 200,
                   OkBody(MarshalBuild(r.build)))

\* Handler.GetBuild
HandleGetBuild(categoryID, version, buildStr) ==
    /\ svLast = NoRequest
    /\ \E rv \in {resolveVersion(svCache, categoryID, version)} :
          \E r \in {IF rv.err THEN Failed ELSE RequestedBuild(categoryID, rv.id, buildStr)} :
              /\ svCache' = rv.cache
              /\ svLast' = BuildResponded(categoryID, version, buildStr, rv, r)
    /\ UNCHANGED <<svUp, upstream, pLast>>
    /\ UNCHANGED notSvc

\* Handler.GetDownload from the resolved version rv on; proxied tells whether the upstream
\* answers the proxy's request
DownloadResponded(categoryID, version, buildStr, rv, r, proxied) ==
    IF rv.err
    THEN Responded("download", categoryID, version, buildStr, rv, 404, ErrorBody(rv.msg))
    ELSE IF buildStr # V_latest /\ ~Atoi(buildStr).ok
    THEN Responded("download", categoryID, version, buildStr, rv, 400,
                   ErrorBody("invalid build number"))
    ELSE IF r.err
    THEN Responded("download", categoryID, version, buildStr, rv, 404, ErrorBody(r.msg))
    ELSE IF Len(r.build.Downloads) = 0 \/ r.build.Downloads[1].UpstreamURL = ""
    THEN Responded("download", categoryID, version, buildStr, rv, 404,
                   ErrorBody("no download available"))
    ELSE IF ~proxied
    THEN Responded("download", categoryID, version, buildStr, rv, 502,
                   ErrorBody("failed to fetch from upstream"))
    ELSE Responded("download", categoryID, version, buildStr, rv, 200,
                   << <<"Content-Type", "application/java-archive">>,
                      <<"Content-Disposition",
                        "attachment; filename=\"" \o r.build.Downloads[1].Name \o "\"">> >>)

\* Handler.GetDownload
HandleGetDownload(categoryID, version, buildStr, proxied) ==
    /\ svLast = NoRequest
    /\ \E rv \in {resolveVersion(svCache, categoryID, version)} :
          \E r \in {IF rv.err THEN Failed ELSE RequestedBuild(categoryID, rv.id, buildStr)} :
              /\ svCache' = rv.cache
              /\ svLast' = DownloadResponded(categoryID, version, buildStr, rv, r, proxied)
    /\ UNCHANGED <<svUp, upstream, pLast>>
    /\ UNCHANGED notSvc

NoResults == [err |-> FALSE, results |-> <<>>, failed |-> {}, cache |-> <<>>]

\* the loop body of JarsService.Search giving up at the first provider that fails
SearchProviderAbort(acc, p, opts) ==
    IF acc.err \/ (opts.Category # <<>> /\ p # opts.Category[1]) THEN acc
    ELSE Bind(SvcGetVersions(acc.cache, p), LAMBDA r :
            IF r.err THEN [acc EXCEPT !.err = TRUE, !.results = <<>>, !.failed = @ \cup {p}]
            ELSE [acc EXCEPT !.cache = r.cache,
                             !.results = @ \o ResultsFrom(r.versions, p, opts)])

\* the loop body of JarsService.Search for one provider of registry.List()
SearchProvider(acc, p, opts) ==
    IF opts.Category # <<>> /\ p # opts.Category[1] THEN acc
    ELSE Bind(SvcGetVersions(acc.cache, p), LAMBDA r :
            IF r.err THEN [acc EXCEPT !.failed = @ \cup {p}]
            ELSE [acc EXCEPT !.cache = r.cache,
                             !.results = @ \o ResultsFrom(r.versions, p, opts)])

RECURSIVE SearchFrom(_, _, _)
SearchFrom(acc, order, opts) ==
    IF order = <<>> THEN acc
    ELSE Bind(SearchProvider(acc, Head(order), opts),
              LAMBDA next : SearchFrom(next, Tail(order), opts))

\* JarsService.Search, with the providers in the order registry.List() hands them out
SvcSearch(cache, order, opts) == SearchFrom([NoResults EXCEPT !.cache = cache], order, opts)

\* the orders of registry.List(), which ranges over a map
ListOrders ==
    {<<CategoryPaper, CategoryPurpur, CategoryVanilla>>,
     <<CategoryVanilla, CategoryPurpur, CategoryPaper>>}

\* Handler.Search; a nil result slice is written as null, shown here as the empty sequence
HandleSearch(opts, order) ==
    /\ svLast = NoRequest
    /\ \E r \in {SvcSearch(svCache, order, opts)} :
          /\ svCache' = r.cache
          /\ svLast' = [NoRequest EXCEPT
                          !.endpoint = "search",
                          !.category = IF opts.Category = <<>> THEN "" ELSE opts.Category[1],
                          !.opts = opts.filter, !.query = opts.Query, !.failed = r.failed,
                          !.status = IF r.err THEN 500 ELSE 200,
                          !.body = IF r.err THEN ErrorBody("search failed")
                                   ELSE OkBody(MapSeq(r.results, MarshalSearchResult))]
    /\ UNCHANGED <<svUp, upstream, pLast>>
    /\ UNCHANGED notSvc

\* the TTL of a cache entry runs out: the next Get of the key misses
SvcExpire(key) ==
    /\ svLast = NoRequest
    /\ svCache[key].present
    /\ svCache' = [svCache EXCEPT ![key] = NoData]
    /\ UNCHANGED <<svLast, svUp, upstream, pLast>>
    /\ UNCHANGED notSvc

\* a provider's version source goes down, or comes back
SvcOutage(p) ==
    /\ svLast = NoRequest
    /\ svUp' = [svUp EXCEPT !.fail = IF p \in @ THEN @ \ {p} ELSE @ \cup {p}]
    /\ UNCHANGED <<svLast, svCache, upstream, pLast>>
    /\ UNCHANGED notSvc

\* the response is written and the handler returns
SvcRespond ==
    /\ svLast # NoRequest
    /\ svLast' = NoRequest
    /\ UNCHANGED <<svUp, svCache, upstream, pLast>>
    /\ UNCHANGED notSvc

\* what upstream holds of the builds of a version: builds 1 to 3 with build 2 on the stable
\* channel, one unstable build, or no answer
SvcUpstreams ==
    {[listOK |-> TRUE,
      builds |-> [n \in 1..MaxBuild |->
                     IF n <= 3 THEN [exists |-> TRUE, good |-> n = 2, ok |-> TRUE, dl |-> TRUE]
                     ELSE AbsentBuild]],
     [listOK |-> TRUE,
      builds |-> [n \in 1..MaxBuild |->
                     IF n = 1 THEN [exists |-> TRUE, good |-> FALSE, ok |-> TRUE, dl |-> TRUE]
                     ELSE AbsentBuild]],
     [listOK |-> FALSE, builds |-> [n \in 1..MaxBuild |-> AbsentBuild]]}

SvcCategories == SvcProviders \cup {CategorySpigot}
\* the providers whose version source goes down
SvcOutages == {CategoryPaper, CategoryPurpur}
SvcRequestVersions == {V_latest, V_1_21}
SvcRequestBuilds == {V_latest, <<"2">>, <<"x">>}
SvcFilters == {NoFilter, [NoFilter EXCEPT !.StableOnly = TRUE]}
SvcSearches ==
    {[filter |-> f, Query |-> q, Category |-> c] :
        f \in SvcFilters, q \in {<<>>, <<"1", ".", "2", "1">>}, c \in {<<>>, <<CategoryPaper>>}}

SvcInit ==
    /\ upstream \in SvcUpstreams
    /\ pLast = NoCall
    /\ svUp \in [fail : {{}}, newer : {"fail", "none", "stable"}]
    /\ svCache = [k \in SvcKeys |-> NoData]
    /\ svLast = NoRequest

SvcNext ==
    \/ \E c \in SvcCategories, o \in SvcFilters : HandleGetVersions(c, o)
    \/ \E c \in SvcCategories, v \in SvcRequestVersions, st \in BOOLEAN :
            HandleGetBuilds(c, v, st)
    \/ \E c \in SvcCategories, v \in SvcRequestVersions, b \in SvcRequestBuilds :
            HandleGetBuild(c, v, b)
    \/ \E c \in SvcCategories, v \in SvcRequestVersions, b \in SvcRequestBuilds,
          proxied \in BOOLEAN : HandleGetDownload(c, v, b, proxied)
    \/ \E o \in SvcSearches, order \in ListOrders : HandleSearch(o, order)
    \/ \E k \in SvcKeys : SvcExpire(k)
    \/ \E p \in SvcOutages : SvcOutage(p)
    \/ SvcRespond

\* the java package of a process that has loaded the rule file cfg
JavaLoaded(cfg) ==
    /\ javaFile = [kind |-> "json", cfg |-> cfg]
    /\ configOnce = TRUE
    /\ config = cfg
    /\ configErr = FALSE
    /\ javaLast = [done |-> FALSE, version |-> <<>>, category |-> CategoryPaper, result |-> 0]

InitSvc == SvcInit /\ CmpIdle /\ JavaLoaded(SvcConfig) /\ FilterIdle /\ CacheIdle /\ ListIdle
        /\ FanIdle /\ ManIdle

SpecSvc == InitSvc /\ [][SvcNext]_vars

-----------------------------------------------------------------------------
(* the service restarted with an edited rule file *)

\* the process is restarted with the rule file cfg: loadConfig runs again in the new
\* process; a Redis cache keeps its entries, the in-process cache starts empty
SvcRestart(cfg, redis) ==
    /\ svLast = NoRequest
    /\ cfg # config
    /\ javaFile' = [kind |-> "json", cfg |-> cfg]
    /\ config' = cfg
    /\ svCache' = IF redis THEN svCache ELSE [k \in SvcKeys |-> NoData]
    /\ UNCHANGED <<configOnce, configErr, javaLast, svLast, svUp, upstream, pLast>>
    /\ UNCHANGED <<cmpVars, filterVars, cacheVars, listVars, fanVars, manVars>>

RestartNext ==
    \/ \E c \in SvcProviders : HandleGetVersions(c, NoFilter)
    \/ \E c \in SvcProviders : HandleGetBuilds(c, V_1_21, FALSE)
    \/ \E c \in SvcProviders : HandleGetBuild(c, V_1_21, V_latest)
    \/ \E k \in SvcKeys : SvcExpire(k)
    \/ \E cfg \in SvcConfigs, redis \in BOOLEAN : SvcRestart(cfg, redis)
    \/ SvcRespond

SpecRestart == InitSvc /\ [][RestartNext]_vars

-----------------------------------------------------------------------------
(* properties of the responses *)

\* the data member of the last response
ResponseData == Member(svLast.body, "data", <<>>)

RECURSIVE Flatten(_)
Flatten(qs) == IF qs = <<>> THEN <<>> ELSE Head(qs) \o Flatten(Tail(qs))

\* the build objects of the last response
BuildObjects ==
    IF svLast.status # 200 THEN <<>>
    ELSE IF svLast.endpoint = "build" THEN <<ResponseData>>
    ELSE IF svLast.endpoint = "builds"
    THEN Member(ResponseData, "builds", <<>>)
            \o (IF HasMember(ResponseData, "latest_stable")
                THEN <<Member(ResponseData, "latest_stable", <<>>)>> ELSE <<>>)
    ELSE <<>>

\* the download objects of the last response
DownloadObjects ==
    Flatten([i \in 1..Len(BuildObjects) |-> Member(BuildObjects[i], "downloads", <<>>)])

\* the objects of the last response that carry no downloads: versions and search results
PlainObjects ==
    IF svLast.status # 200 THEN <<>>
    ELSE IF svLast.endpoint = "versions" THEN Member(ResponseData, "versions", <<>>)
    ELSE IF svLast.endpoint = "search" THEN ResponseData
    ELSE <<>>

Keys(obj) == {obj[i][1] : i \in 1..Len(obj)}

\* every UpstreamURL a provider hands to the service
KnownUpstreamURLs ==
    LET ups == SvcUpstreams \cup {NewerUp(f) : f \in {"fail", "none", "stable"}}
    IN  UNION {{r.Downloads[i].UpstreamURL : i \in 1..Len(r.Downloads)} :
                  r \in UNION {Range(ProvGetBuilds(p, up, v).builds) :
                                  p \in SvcProviders, up \in ups, v \in SvcVersions}}

\* C4: no response carries the UpstreamURL of a Download: the download objects of build and
\* build-list responses hold only name, sha256, sha1 and size; none of their texts, no
\* channel, no error message and no header of a proxied download is an upstream URL; and
\* versions and search results hold no member beyond their documented ones
C4_NoUpstreamURL ==
    /\ \A i \in 1..Len(DownloadObjects) :
          LET d == DownloadObjects[i]
          IN  /\ Keys(d) \subseteq {"name", "sha256", "sha1", "size"}
              /\ \A j \in 1..Len(d) : d[j][1] # "size" => d[j][2] \notin KnownUpstreamURLs
    /\ \A i \in 1..Len(BuildObjects) :
          /\ Keys(BuildObjects[i]) \subseteq {"number", "version", "channel", "stable",
                                              "created_at", "downloads", "changes", "java"}
          /\ Member(BuildObjects[i], "channel", "") \notin KnownUpstreamURLs
    /\ \A i \in 1..Len(PlainObjects) :
          Keys(PlainObjects[i]) \subseteq {"id", "type", "release_time", "stable", "java",
                                           "category", "version"}
    /\ Member(svLast.body, "error", "") \notin KnownUpstreamURLs
    /\ (svLast.endpoint = "download" /\ svLast.status = 200) =>
          \A j \in 1..Len(svLast.body) : svLast.body[j][2] \notin KnownUpstreamURLs

\* the build the last build or download request was answered from
AnsweredBuild == RequestedBuild(svLast.category, svLast.resolved, svLast.build).build

\* a build response with a download whose UpstreamURL the provider had set
C4_Witness ==
    /\ svLast.endpoint = "build"
    /\ svLast.status = 200
    /\ Len(DownloadObjects) > 0
    /\ AnsweredBuild.Downloads # <<>>
    /\ AnsweredBuild.Downloads[1].UpstreamURL \in KnownUpstreamURLs \ {""}

\* the options of the last search
LastSearch ==
    [filter |-> svLast.opts, Query |-> svLast.query,
     Category |-> IF svLast.category = "" THEN <<>> ELSE <<svLast.category>>]

\* the results of the last search that belong to provider p, as version identifiers
ResultsOf(p) ==
    LET mine == SelectSeq(ResponseData, LAMBDA r : Member(r, "category", "") = p)
    IN  [i \in 1..Len(mine) |-> Member(mine[i], "version", <<>>)]

\* the versions of provider p, as the service holds them after the search, that match it
MatchesOf(p) ==
    LET versions == Unmarshal(svCache[VersionsKey(p)].data, "versions").items
        found == SelectSeq(versions, LAMBDA v : SearchMatches(v, p, LastSearch))
    IN  [i \in 1..Len(found) |-> found[i].ID]

\* C5: a search answers 200 without an error whichever providers fail; a provider whose
\* version fetch failed contributes no result, and every other provider the category
\* option admits contributes each of its matching versions
C5_SearchDegrades ==
    svLast.endpoint = "search" =>
        /\ svLast.status = 200
        /\ Member(svLast.body, "success", FALSE)
        /\ ~HasMember(svLast.body, "error")
        /\ svLast.failed \subseteq svUp.fail
        /\ \A p \in SvcProviders :
              IF svLast.category # "" /\ p # svLast.category
              THEN ResultsOf(p) = <<>> /\ p \notin svLast.failed
              ELSE IF p \in svLast.failed
              THEN ResultsOf(p) = <<>> /\ ~svCache[VersionsKey(p)].present
              ELSE svCache[VersionsKey(p)].present /\ ResultsOf(p) = MatchesOf(p)

\* a search over all categories in which one provider failed and another contributed
C5_Witness ==
    /\ svLast.endpoint = "search"
    /\ svLast.category = ""
    /\ CategoryPaper \in svLast.failed
    /\ ResultsOf(CategoryPurpur) # <<>>
    /\ ResultsOf(CategoryVanilla) # <<>>

\* the version of a set that compares newest
Newest(versions) == CHOOSE v \in versions : \A w \in versions : compareVersions(v, w) >= 0

\* what upstream holds: the versions of a category, and whether a version counts as stable
\* (Paper: some build on a stable channel; Vanilla: a release; Purpur: always)
ListedBy(p) ==
    CASE p = CategoryPaper -> Range(PaperCatalogue)
      [] p = CategoryPurpur -> Range(PurpurCatalogue)
      [] OTHER -> {VanillaManifest[i].id : i \in 1..Len(VanillaManifest)}

CountsStable(p, version) ==
    CASE p = CategoryPaper ->
            LET up == UpFor(p, version)
            IN  up.listOK /\ \E n \in 1..MaxBuild : up.builds[n].exists /\ up.builds[n].good
      [] p = CategoryPurpur -> TRUE
      [] OTHER -> \E i \in 1..Len(VanillaManifest) :
                      VanillaManifest[i].id = version /\ VanillaManifest[i].type = "release"

ExpectedLatest(p) ==
    LET stable == {v \in ListedBy(p) : CountsStable(p, v)}
    IN  IF stable # {} THEN Newest(stable) ELSE Newest(ListedBy(p))

ResponseError == Member(svLast.body, "error", "")

\* the version objects of a versions response
ListedVersions == Member(ResponseData, "versions", <<>>)

\* C12: the cache-miss signal never reaches a caller. A versions request that misses the
\* cache is answered from a live fetch: with the registry's error for an unknown category,
\* with the provider's error when its source is down, and otherwise with the versions the
\* provider lists, which the cache holds afterwards. No response of the versions, builds,
\* build and download requests carries the cache-miss error.
C12_MissNeverSurfaces ==
    /\ svLast.endpoint \in {"versions", "builds", "build", "download"} =>
          ResponseError # ErrCacheMiss
    /\ (svLast.endpoint = "versions" /\ ~svLast.hit) =>
          IF ~Registered(svLast.category)
          THEN svLast.status = 404 /\ ResponseError = ErrProvider(svLast.category)
          ELSE IF svLast.category \in svUp.fail
          THEN svLast.status = 404 /\ ResponseError = ErrStatus
          ELSE /\ svLast.status = 200
               /\ CacheHit(svCache, VersionsKey(svLast.category))
               /\ svLast.opts = NoFilter =>
                     ListedVersions = MapSeq(WithJava(ProvGetVersions(svLast.category).versions,
                                                      svLast.category),
                                             MarshalVersion)

\* a versions request for Paper that missed the cache, answered with the fetched versions
C12_Witness ==
    /\ svLast.endpoint = "versions" /\ ~svLast.hit
    /\ svLast.category = CategoryPaper
    /\ svLast.status = 200
    /\ Len(ListedVersions) = Len(PaperCatalogue)

\* a versions request for Purpur that missed the cache with the source down
C12_WitnessDown ==
    /\ svLast.endpoint = "versions" /\ ~svLast.hit
    /\ svLast.category = CategoryPurpur
    /\ svLast.status = 404 /\ ResponseError = ErrStatus

\* C15: a failure is answered by its kind: an upstream source that does not answer with
\* a gateway-class status (502, 503 or 504), an unknown category with 404, and a build
\* number that is no number with 400
C15_ErrorsByKind ==
    (svLast.endpoint \in {"versions", "builds", "build", "download"} /\ svLast.status # 200) =>
        /\ ResponseError = ErrStatus => svLast.status \in {502, 503, 504}
        /\ ResponseError = ErrProvider(svLast.category) => svLast.status = 404
        /\ ResponseError = "invalid build number" => svLast.status = 400

\* the Java requirement a version or build object of a response carries
JavaOf(obj) == Member(obj, "java", 0)

\* C13: every version and every build of a response carries the Java requirement the
\* rule table of the running process gives its version, whether the record came from the
\* cache or from a live fetch
C13_JavaFromCurrentRules ==
    svLast.status = 200 =>
        /\ svLast.endpoint = "versions" =>
              \A i \in 1..Len(ListedVersions) :
                  JavaOf(ListedVersions[i])
                      = JavaFor(Member(ListedVersions[i], "id", <<>>), svLast.category)
        /\ svLast.endpoint \in {"builds", "build"} =>
              \A i \in 1..Len(BuildObjects) :
                  JavaOf(BuildObjects[i]) = JavaFor(svLast.resolved, svLast.category)


\* a handler serves a request of the endpoint in this step
Serving(endpoint) == svLast = NoRequest /\ svLast'.endpoint = endpoint

\* the keys other than key hold what they held
OthersKept(key) == \A k \in SvcKeys \ {key} : svCache'[k] = svCache[k]

\* a versions request of a registered category: answered from the entry when there is
\* one, the cache left alone; else, when the provider answers, the fetched list is stored
\* with its Java requirements under the category's key and no other key is touched
VersionsComputeOrFetch ==
    (Serving("versions") /\ Registered(svLast'.category)) =>
        LET c == svLast'.category
            key == VersionsKey(c)
        IN  IF svCache[key].present
            THEN /\ svLast'.hit /\ svLast'.status = 200
                 /\ svCache' = svCache
                 /\ svLast'.body =
                        OkBody(MarshalVersionsResponse(
                                   c, FilterVersions(Unmarshal(svCache[key].data, "versions").items,
                                                     svLast'.opts)))
            ELSE /\ ~svLast'.hit
                 /\ svLast'.status = 200 <=> ~ProvGetVersions(c).err
                 /\ svLast'.status = 200 =>
                        /\ svCache'[key] =
                              [present |-> TRUE,
                               data |-> Marshal([kind |-> "versions",
                                                 items |-> WithJava(ProvGetVersions(c).versions, c)])]
                        /\ OthersKept(key)

\* the same for a builds request that names its version
BuildsComputeOrFetch ==
    (Serving("builds") /\ Registered(svLast'.category) /\ svLast'.requested # V_latest) =>
        LET c == svLast'.category
            v == svLast'.requested
            key == BuildsKey(c, v)
            fetched == ProvGetBuilds(c, UpFor(c, v), v)
        IN  IF svCache[key].present
            THEN /\ svLast'.hit /\ svLast'.status = 200
                 /\ svCache' = svCache
                 /\ svLast'.body =
                        OkBody(MarshalBuildsResponse(
                                   c, v, SelectSeq(Unmarshal(svCache[key].data, "builds").items,
                                                   LAMBDA b : BuildPasses(b, svLast'.opts))))
            ELSE /\ ~svLast'.hit
                 /\ svLast'.status = 200 <=> ~fetched.err
                 /\ svLast'.status = 200 =>
                        /\ svCache'[key] =
                              [present |-> TRUE,
                               data |-> Marshal([kind |-> "builds",
                                                 items |-> [i \in 1..Len(fetched.builds) |->
                                                              [fetched.builds[i] EXCEPT
                                                                  !.Java = JavaFor(v, c)]]])]
                        /\ OthersKept(key)

\* C26: on a miss the service fetches from the provider, sets the Java requirement and
\* stores the list under the key of the operation, category and version before it
\* answers; while the entry lasts a call for the key is answered from it, the provider not
\* asked and the cache not written
C26_ComputeOrFetch == [][VersionsComputeOrFetch /\ BuildsComputeOrFetch]_vars

\* a versions request answered from the cache while the provider's source is down
C26_Witness ==
    /\ svLast.endpoint = "versions" /\ svLast.hit /\ svLast.status = 200
    /\ svLast.category = CategoryPurpur
    /\ CategoryPurpur \in svUp.fail

\* a builds request that missed, with the fetched builds now stored under its key
C26_WitnessStored ==
    /\ svLast.endpoint = "builds" /\ ~svLast.hit /\ svLast.status = 200
    /\ svLast.category = CategoryPaper /\ svLast.requested = V_1_21
    /\ svCache[BuildsKey(CategoryPaper, V_1_21)].present
    /\ ~svCache[VersionsKey(CategoryPaper)].present

\* a versions or builds request that fails leaves every cache entry as it was and answers
\* with the error of the registry or of the provider; a builds request for "latest" may
\* have stored the versions it resolved the name with
FailureWritesNothing ==
    /\ (Serving("versions") /\ svLast'.status # 200) =>
          /\ svCache' = svCache
          /\ svLast'.body = ErrorBody(IF Registered(svLast'.category) THEN ErrStatus
                                      ELSE ErrProvider(svLast'.category))
    /\ (Serving("builds") /\ svLast'.status # 200) =>
          /\ \A k \in SvcKeys :
                (svLast'.requested = V_latest => k # VersionsKey(svLast'.category))
                    => svCache'[k] = svCache[k]
          /\ ~Registered(svLast'.category) =>
                /\ svCache' = svCache
                /\ svLast'.body = ErrorBody(ErrProvider(svLast'.category))

\* C29: GetVersions and GetBuilds that fail for an unregistered category or a failed
\* provider fetch return that error and leave the cache as it was; and a versions request
\* for an unregistered category fails whatever was requested before
C29_ErrorLeavesCache ==
    /\ [][FailureWritesNothing]_vars
    /\ [](svLast.endpoint = "versions" /\ ~Registered(svLast.category) => svLast.status = 404)

\* a versions request for the unregistered category refused with entries of other
\* categories in the cache
C29_Witness ==
    /\ svLast.endpoint = "versions" /\ svLast.category = CategorySpigot
    /\ svLast.status = 404
    /\ svCache[VersionsKey(CategoryPaper)].present
    /\ svCache[BuildsKey(CategoryPurpur, V_1_21)].present

\* a versions request that failed at the provider, the cache holding no entry of its key
C29_WitnessDown ==
    /\ svLast.endpoint = "versions" /\ svLast.category = CategoryPaper
    /\ svLast.status = 404 /\ CategoryPaper \in svUp.fail
    /\ ~svCache[VersionsKey(CategoryPaper)].present
    /\ svCache[VersionsKey(CategoryPurpur)].present

=============================================================================
